---- MODULE Spec2Model ----
(***************************************************************************)
(* Verification model of BotVankor-v2: the payroll calculators and the     *)
(* salary report (app/services/salary_service.py,                          *)
(* app/services/annual_bonus_service.py) under Spec, and the weather cache *)
(* (app/services/weather_service.py) under CacheSpec, with one caller, and *)
(* ThreadsSpec, with two threads; get_weather with overlapping calls       *)
(* under FetchSpec; the day's flight risk                                  *)
(* (app/services/flight_forecast_weather.py) under FlightSpec; the         *)
(* database layer (app/database/db.py): UserCRUD.get_or_create with one    *)
(* session under UsersSpec and two under SessionsSpec, init_db,            *)
(* get_session and db_session under DatabaseSpec, SalaryCRUD under         *)
(* RecordsSpec; the bot (app/bot/telegram/handlers.py): error_handler      *)
(* under ErrorSpec, and the salary and annual bonus dialogues of one user  *)
(* under DialogueSpec.                                                     *)
(*                                                                         *)
(* The calculators work on decimal.Decimal under Python's default context  *)
(* (prec = 28, ROUND_HALF_EVEN, Emax = 999999, Overflow trapped).  TLC's   *)
(* integers are 32 bits wide, so a Decimal is modelled as a sign, a        *)
(* coefficient held as a little-endian sequence of base-10000 limbs, and   *)
(* an exponent; every operation computes the exact result and rounds it    *)
(* to Prec significant digits, as the decimal module does.                 *)
(***************************************************************************)
EXTENDS Integers, Sequences, FiniteSets, TLC

VARIABLES
    fn,          \* which calculator this caller uses: "salary" or "annual"
    args,        \* arguments of the current call
    pc,          \* "ready": call not made yet; "returned"; "raised"
    outcome,     \* what the current call produced (kind "none" before it ran)
    prevArgs,    \* arguments of the caller's previous call (args if none)
    prevOutcome, \* outcome of the caller's previous call
    ncalls,      \* number of calls this caller has started
    report,      \* the report formatted from the current call's result
    cache,            \* WeatherCache._cache
    cache_timestamp,  \* WeatherCache._cache_timestamp
    cache_duration,   \* WeatherCache._cache_duration
    now,         \* what time.time() returns
    threads,     \* the threads that call the cache's methods
    tpc,         \* per thread: "idle", the line it is about to run, or "done"
    tloc,        \* per thread: the call it runs, its locals and what it returned
    base,        \* the cache's content when the calls under way began
    lastSet,     \* the value and time of the last set() no clear() followed
    requests,    \* per caller: the HTTP request of its get_weather call, its answer
    fetched,     \* the data the get_weather calls so far built from a 200 response
    forecast,    \* the day's worst forecast at each of the two locations
    daily_analyses,   \* get_flight_forecast: the analysis of the day
    engine,           \* db._engine
    SessionLocal,     \* db._SessionLocal
    schema,           \* the database file: the columns of each table it holds
    users,            \* the rows of table users
    salary_records,   \* the rows of table salary_records
    weather_records,  \* the rows of table weather_records
    sessions,         \* the sessions handed out: transaction state and pending rows
    dpc,         \* per database client: "idle", the line it is about to run, "done"
    dloc,        \* per database client: the call it runs, its locals, its result
    dcalls,      \* the number of calls the database clients have made
    init_ok,     \* an init_db call has completed without raising
    epc,         \* error_handler: "idle", the statement it is about to run, "returned"
    eloc,        \* error_handler: its arguments, its locals and what it did
    ecalls,      \* the number of times error_handler has been called
    salary_conv_handler,        \* the user's state in the salary dialogue, or END
    annual_bonus_conv_handler,  \* the user's state in the annual bonus dialogue, or END
    user_data,   \* context.user_data of the user
    outage,      \* whether a message of a handler could not be sent so far
    saved_in_run \* the number of records the salary dialogue has saved since entered

cacheVars ==
    <<cache, cache_timestamp, cache_duration, now, threads, tpc, tloc, base, lastSet>>

fetchVars == <<requests, fetched>>

flightVars == <<forecast, daily_analyses>>

dbVars ==
    <<engine, SessionLocal, schema, users, salary_records, weather_records,
      sessions, dpc, dloc, dcalls, init_ok>>

errorVars == <<epc, eloc, ecalls>>

dialogueVars ==
    <<salary_conv_handler, annual_bonus_conv_handler, user_data, outage, saved_in_run>>

botVars == <<errorVars, dialogueVars>>

vars ==
    <<fn, args, pc, outcome, prevArgs, prevOutcome, ncalls, report,
      cache, cache_timestamp, cache_duration, now, threads, tpc, tloc, base, lastSet,
      requests, fetched, forecast, daily_analyses,
      engine, SessionLocal, schema, users, salary_records, weather_records,
      sessions, dpc, dloc, dcalls, init_ok,
      epc, eloc, ecalls,
      salary_conv_handler, annual_bonus_conv_handler, user_data, outage, saved_in_run>>

(***************************************************************************)
(* decimal.Decimal: context                                                *)
(***************************************************************************)
Prec == 28
Emax == 999999

(***************************************************************************)
(* Natural numbers of any size: little-endian sequences of limbs in        *)
(* 0..9999, without leading zero limbs; <<>> is 0.                         *)
(*                                                                         *)
(* An operator that reads an argument several times first binds its value  *)
(* (CHOOSE r \in {... : v \in {arg}} : TRUE), so that the argument is      *)
(* evaluated once, as in a call by value.                                  *)
(***************************************************************************)
SetMax(S) == CHOOSE m \in S : \A x \in S : x <= m

Limb(a, i) == IF i <= Len(a) THEN a[i] ELSE 0

\* a without its highest zero entries
RECURSIVE HighestNonZero(_, _)
HighestNonZero(v, i) ==
    IF i = 0 THEN 0 ELSE IF v[i] # 0 THEN i ELSE HighestNonZero(v, i - 1)

BigNorm(a) ==
    CHOOSE r \in {SubSeq(v, 1, HighestNonZero(v, Len(v))) : v \in {a}} : TRUE

\* s is the sum of the limbs at position i and the carry into it
RECURSIVE BigAddC(_, _, _, _)
BigAddC(a, b, i, s) ==
    IF i > Len(a) /\ i > Len(b)
    THEN IF s = 0 THEN <<>> ELSE <<s>>
    ELSE <<s % 10000>>
           \o BigAddC(a, b, i + 1, Limb(a, i + 1) + Limb(b, i + 1) + s \div 10000)

BigAdd(a, b) ==
    CHOOSE r \in {BigAddC(p[1], p[2], 1, Limb(p[1], 1) + Limb(p[2], 1)) : p \in {<<a, b>>}} : TRUE

\* a - b for a >= b; d is the difference of the limbs at position i less
\* the borrow out of position i - 1
RECURSIVE BigSubC(_, _, _, _)
BigSubC(a, b, i, d) ==
    IF i > Len(a)
    THEN <<>>
    ELSE <<IF d < 0 THEN d + 10000 ELSE d>>
           \o BigSubC(a, b, i + 1,
                      Limb(a, i + 1) - Limb(b, i + 1) - (IF d < 0 THEN 1 ELSE 0))

BigSub(a, b) ==
    CHOOSE r \in {BigNorm(BigSubC(p[1], p[2], 1, Limb(p[1], 1) - Limb(p[2], 1)))
                    : p \in {<<a, b>>}} : TRUE

\* -1, 0, 1 as a < b, a = b, a > b
BigCmpV(a, b) ==
    IF Len(a) # Len(b)
    THEN IF Len(a) > Len(b) THEN 1 ELSE -1
    ELSE IF a = b THEN 0
    ELSE IF a[SetMax({i \in 1..Len(a) : a[i] # b[i]})]
              > b[SetMax({i \in 1..Len(a) : a[i] # b[i]})] THEN 1 ELSE -1

\* a * m for one limb m; p is a[i] * m plus the carry into position i
RECURSIVE BigMulLimbC(_, _, _, _)
BigMulLimbC(a, m, i, p) ==
    IF i > Len(a)
    THEN IF p = 0 THEN <<>> ELSE <<p>>
    ELSE <<p % 10000>> \o BigMulLimbC(a, m, i + 1, Limb(a, i + 1) * m + p \div 10000)

RECURSIVE BigMulAcc(_, _, _)
BigMulAcc(a, b, j) ==
    IF j > Len(b)
    THEN <<>>
    ELSE BigAdd(BigMulLimbC(a, b[j], 1, Limb(a, 1) * b[j]), <<0>> \o BigMulAcc(a, b, j + 1))

BigMul(a, b) ==
    CHOOSE r \in {BigNorm(BigMulAcc(p[1], p[2], 1)) : p \in {<<a, b>>}} : TRUE

\* Long division of a by a divisor d that fits a machine word (d <= 200000
\* keeps cur inside 32 bits), from the highest limb down; cur is the running
\* remainder with limb i brought down.  The result is the remainder followed
\* by the limbs of the quotient.
RECURSIVE BigDivC(_, _, _, _)
BigDivC(a, d, i, cur) ==
    IF i = 1
    THEN <<cur % d, cur \div d>>
    ELSE BigDivC(a, d, i - 1, (cur % d) * 10000 + a[i - 1]) \o <<cur \div d>>

\* [q |-> a \div d, r |-> a % d] for a # 0
BigDivSmall(a, d) ==
    CHOOSE r \in {[q |-> BigNorm(Tail(v)), r |-> Head(v)]
                    : v \in {BigDivC(a, d, Len(a), a[Len(a)])}} : TRUE

BigToInt(a) == Limb(a, 1) + 10000 * Limb(a, 2)

IntToBig(n) == BigNorm(<<n % 10000, (n \div 10000) % 10000, n \div 100000000>>)

(***************************************************************************)
(* Decimal digits of a natural number, little-endian, no leading zeros.    *)
(***************************************************************************)
Pow10(k) == CASE k = 0 -> 1 [] k = 1 -> 10 [] k = 2 -> 100 [] k = 3 -> 1000

ToDigits(a) ==
    BigNorm([i \in 1..(4 * Len(a)) |->
                (a[((i - 1) \div 4) + 1] \div Pow10((i - 1) % 4)) % 10])

Dg(d, i) == IF i <= Len(d) THEN d[i] ELSE 0

FromDigits(d) ==
    CHOOSE r \in
        {BigNorm([i \in 1..((Len(v) + 3) \div 4) |->
                     Dg(v, 4 * i - 3) + 10 * Dg(v, 4 * i - 2)
                       + 100 * Dg(v, 4 * i - 1) + 1000 * Dg(v, 4 * i)]) : v \in {d}} : TRUE

NumDigits(a) == Len(ToDigits(a))

\* a * 10^k
ShiftLeft(a, k) ==
    IF k = 0 \/ a = <<>> THEN a
    ELSE FromDigits([i \in 1..k |-> 0] \o ToDigits(a))

(***************************************************************************)
(* decimal.Decimal values.  kind "num": s * c * 10^e with s the sign (1 or *)
(* -1), canonical: c has no trailing decimal zero, and zero is s = 1,      *)
(* c = <<>>, e = 0, so that = on "num" values is numeric equality          *)
(* (Decimal.__eq__).  kind "none" is Python's None; kind "ovf" stands for  *)
(* an operation that raised decimal.Overflow (the default context traps    *)
(* it), and every operation on it raises again.                            *)
(***************************************************************************)
None     == [kind |-> "none", s |-> 1, c |-> <<>>, e |-> 0]
Overflow == [kind |-> "ovf",  s |-> 1, c |-> <<>>, e |-> 0]
Zero     == [kind |-> "num",  s |-> 1, c |-> <<>>, e |-> 0]

IsNum(x) == x.kind = "num"
IsZero(x) == x.kind = "num" /\ x.c = <<>>

\* exponent of the most significant digit
Adjusted(x) == x.e + NumDigits(x.c) - 1

\* The value s * d * 10^e for a digit sequence d of at most Prec digits
\* with its first tz digits zero: trailing zeros stripped, Overflow trapped
DecOfDigits(s, d, e, tz) ==
    IF d = <<>> THEN Zero
    ELSE IF e + Len(d) - 1 > Emax THEN Overflow
    ELSE [kind |-> "num", s |-> s,
          c |-> FromDigits(SubSeq(d, tz + 1, Len(d))), e |-> e + tz]

\* The number of zero digits below the lowest non-zero digit from the i-th on
RECURSIVE TrailingZeros(_, _)
TrailingZeros(d, i) ==
    IF i > Len(d) \/ d[i] # 0 THEN i - 1 ELSE TrailingZeros(d, i + 1)

DecCanonDigits(s, digits, e) ==
    CHOOSE r \in {DecOfDigits(s, d, e, TrailingZeros(d, 1)) : d \in {digits}} : TRUE

DecCanon(s, n, e) == DecCanonDigits(s, ToDigits(n), e)

\* ROUND_HALF_EVEN of the digits d to their highest Len(d) - k digits (k > 0);
\* sticky says that the exact value lies strictly above d in magnitude
RoundUp(d, k, sticky) ==
    \/ d[k] > 5
    \/ /\ d[k] = 5
       /\ (sticky \/ (\E i \in 1..(k - 1) : d[i] # 0) \/ d[k + 1] % 2 = 1)

RoundedDigits(d, k, sticky) ==
    IF RoundUp(d, k, sticky)
    THEN BigAdd(FromDigits(SubSeq(d, k + 1, Len(d))), <<1>>)
    ELSE FromDigits(SubSeq(d, k + 1, Len(d)))

\* Decimal._fix: s * n * 10^e rounded to Prec significant digits
DecFix(s, n, e, sticky) ==
    CHOOSE r \in
        {IF Len(d) <= Prec THEN DecCanonDigits(s, d, e)
         ELSE DecCanon(s, RoundedDigits(d, Len(d) - Prec, sticky), e + Len(d) - Prec)
            : d \in {ToDigits(n)}} : TRUE

\* Decimal(n) * 10^e for a machine integer n
D(n, e) == IF n < 0 THEN DecCanon(-1, IntToBig(-n), e) ELSE DecCanon(1, IntToBig(n), e)

DecNeg(x) ==
    CHOOSE r \in {IF IsNum(v) /\ v.c # <<>> THEN [v EXCEPT !.s = -v.s] ELSE v
                    : v \in {x}} : TRUE

\* Decimal.__mul__ (operands evaluated)
DecMulV(x, y) ==
    IF ~IsNum(x) \/ ~IsNum(y) THEN Overflow
    ELSE IF x.c = <<>> \/ y.c = <<>> THEN Zero
    ELSE DecFix(x.s * y.s, BigMul(x.c, y.c), x.e + y.e, FALSE)

DecMul(x, y) == CHOOSE r \in {DecMulV(p[1], p[2]) : p \in {<<x, y>>}} : TRUE

\* The sum of sa * a * 10^em and sb * b * 10^em
DecAlignedV(sa, a, sb, b, em) ==
    IF sa = sb THEN DecFix(sa, BigAdd(a, b), em, FALSE)
    ELSE IF BigCmpV(a, b) = 0 THEN Zero
    ELSE IF BigCmpV(a, b) > 0 THEN DecFix(sa, BigSub(a, b), em, FALSE)
    ELSE DecFix(sb, BigSub(b, a), em, FALSE)

DecAligned(sa, a, sb, b, em) ==
    CHOOSE r \in {DecAlignedV(sa, p[1], sb, p[2], em) : p \in {<<a, b>>}} : TRUE

\* Decimal.__add__ (operands evaluated).  When the smaller operand lies
\* wholly below the digits the result can keep (more than Prec + 2 places
\* under the larger one's leading digit) the rounded sum is the larger
\* operand.
DecAddV(x, y) ==
    IF ~IsNum(x) \/ ~IsNum(y) THEN Overflow
    ELSE IF x.c = <<>> THEN y
    ELSE IF y.c = <<>> THEN x
    ELSE IF Adjusted(y) < Adjusted(x) - (Prec + 2) THEN x
    ELSE IF Adjusted(x) < Adjusted(y) - (Prec + 2) THEN y
    ELSE IF x.e < y.e
    THEN DecAligned(x.s, x.c, y.s, ShiftLeft(y.c, y.e - x.e), x.e)
    ELSE DecAligned(x.s, ShiftLeft(x.c, x.e - y.e), y.s, y.c, y.e)

DecAdd(x, y) == CHOOSE r \in {DecAddV(p[1], p[2]) : p \in {<<x, y>>}} : TRUE

\* Decimal.__sub__
DecSub(x, y) == DecAdd(x, DecNeg(y))

\* Digits to scale the dividend by so that the quotient has more than Prec
DivShift(x, y) ==
    IF Prec + 1 + NumDigits(y.c) - NumDigits(x.c) > 0
    THEN Prec + 1 + NumDigits(y.c) - NumDigits(x.c)
    ELSE 0

DecQuot(s, qr, e) == CHOOSE r \in {DecFix(s, v.q, e, v.r # 0) : v \in {qr}} : TRUE

\* Decimal.__truediv__ (operands evaluated) for a non-zero divisor whose
\* coefficient fits BigDivSmall (every divisor of the calculators does: 3,
\* 100, 12, months_in_company)
DecDivV(x, y) ==
    IF ~IsNum(x) \/ ~IsNum(y) THEN Overflow
    ELSE IF x.c = <<>> THEN Zero
    ELSE DecQuot(x.s * y.s,
                 BigDivSmall(ShiftLeft(x.c, DivShift(x, y)), BigToInt(y.c)),
                 x.e - y.e - DivShift(x, y))

DecDiv(x, y) == CHOOSE r \in {DecDivV(p[1], p[2]) : p \in {<<x, y>>}} : TRUE

\* Decimal._cmp on the magnitudes of two non-zero values: by the exponent of
\* the leading digit, then by the coefficients brought to one exponent
DecCmpAbsV(x, y) ==
    IF Adjusted(x) # Adjusted(y)
    THEN IF Adjusted(x) > Adjusted(y) THEN 1 ELSE -1
    ELSE IF x.e < y.e
    THEN BigCmpV(x.c, ShiftLeft(y.c, y.e - x.e))
    ELSE BigCmpV(ShiftLeft(x.c, x.e - y.e), y.c)

\* -1, 0, 1 as x < y, x = y, x > y (Decimal's rich comparisons, which are
\* exact: no rounding takes part); operands evaluated
DecCmpV(x, y) ==
    IF x.c = <<>> THEN (IF y.c = <<>> THEN 0 ELSE -y.s)
    ELSE IF y.c = <<>> THEN x.s
    ELSE IF x.s # y.s THEN x.s
    ELSE x.s * DecCmpAbsV(x, y)

DecCmp(x, y) == CHOOSE r \in {DecCmpV(p[1], p[2]) : p \in {<<x, y>>}} : TRUE

DecLt(x, y) == DecCmp(x, y) < 0
DecLe(x, y) == DecCmp(x, y) <= 0
DecGt(x, y) == DecCmp(x, y) > 0

(***************************************************************************)
(* salary_service.py                                                       *)
(***************************************************************************)
MONTHLY_BONUS_RATE   == D(33, 0)
NIGHT_SHIFT_RATE     == D(40, 0)
TAX_RATE             == D(13, 0)
HOURS_PER_DAY        == D(11, 0)
TRAVEL_HOURS_PER_DAY == D(8, 0)
IDLE_RATE            == DecDiv(D(2, 0), D(3, 0))
SHIFT_METHOD_RATE    == D(740, 0)
Hundred              == D(100, 0)

\* The reasons carried by SalaryCalculationError, in the order of the checks
ErrHourlyRate   == "hourly rate must be greater than zero"
ErrDaysNegative == "days worked cannot be negative"
ErrDaysMax      == "days worked exceeds the reasonable maximum (365 days)"
ErrNightHours   == "night hours cannot be negative"
ErrIdleDays     == "idle days cannot be negative"
ErrTravelDays   == "travel days cannot be negative"
ErrHolidayDays  == "holiday days cannot be negative"
ErrAdditional   == "additional payments cannot be negative"
ErrRegional     == "regional allowance must be between 0 and 100%"
ErrNorthern     == "northern allowance must be between 0 and 100%"
Valid           == "valid"

SalaryParams ==
    {"hourly_rate", "days_worked", "night_hours", "idle_days", "travel_days",
     "holiday_days", "additional_payments", "regional_allowance_rate",
     "northern_allowance_rate"}

SalaryResultKeys ==
    {"hourly_rate", "days_worked", "night_hours", "idle_days", "travel_days",
     "holiday_days", "hours_by_timesheet", "salary_by_position",
     "holiday_payment", "idle_payment", "travel_payment",
     "shift_method_payment", "night_shift_payment", "monthly_bonus",
     "regional_allowance_rate", "regional_allowance",
     "northern_allowance_rate", "northern_allowance", "additional_payments",
     "total_accrued", "taxable_base", "tax", "net"}

\* validate_salary_inputs with the two allowance checks in the other order
validate_salary_inputs_northern_first(a) ==
    IF DecLe(a.hourly_rate, Zero) THEN ErrHourlyRate
    ELSE IF DecLt(a.days_worked, Zero) THEN ErrDaysNegative
    ELSE IF DecGt(a.days_worked, D(365, 0)) THEN ErrDaysMax
    ELSE IF a.night_hours # None /\ DecLt(a.night_hours, Zero) THEN ErrNightHours
    ELSE IF a.idle_days # None /\ DecLt(a.idle_days, Zero) THEN ErrIdleDays
    ELSE IF a.travel_days # None /\ DecLt(a.travel_days, Zero) THEN ErrTravelDays
    ELSE IF a.holiday_days # None /\ DecLt(a.holiday_days, Zero) THEN ErrHolidayDays
    ELSE IF a.additional_payments # None /\ DecLt(a.additional_payments, Zero)
         THEN ErrAdditional
    ELSE IF a.northern_allowance_rate # None
            /\ (DecLt(a.northern_allowance_rate, Zero)
                \/ DecGt(a.northern_allowance_rate, Hundred))
         THEN ErrNorthern
    ELSE IF a.regional_allowance_rate # None
            /\ (DecLt(a.regional_allowance_rate, Zero)
                \/ DecGt(a.regional_allowance_rate, Hundred))
         THEN ErrRegional
    ELSE Valid

\* validate_salary_inputs: the reason of the first failing check, or Valid
validate_salary_inputs(a) ==
    IF DecLe(a.hourly_rate, Zero) THEN ErrHourlyRate
    ELSE IF DecLt(a.days_worked, Zero) THEN ErrDaysNegative
    ELSE IF DecGt(a.days_worked, D(365, 0)) THEN ErrDaysMax
    ELSE IF a.night_hours # None /\ DecLt(a.night_hours, Zero) THEN ErrNightHours
    ELSE IF a.idle_days # None /\ DecLt(a.idle_days, Zero) THEN ErrIdleDays
    ELSE IF a.travel_days # None /\ DecLt(a.travel_days, Zero) THEN ErrTravelDays
    ELSE IF a.holiday_days # None /\ DecLt(a.holiday_days, Zero) THEN ErrHolidayDays
    ELSE IF a.additional_payments # None /\ DecLt(a.additional_payments, Zero)
         THEN ErrAdditional
    ELSE IF a.regional_allowance_rate # None
            /\ (DecLt(a.regional_allowance_rate, Zero)
                \/ DecGt(a.regional_allowance_rate, Hundred))
         THEN ErrRegional
    ELSE IF a.northern_allowance_rate # None
            /\ (DecLt(a.northern_allowance_rate, Zero)
                \/ DecGt(a.northern_allowance_rate, Hundred))
         THEN ErrNorthern
    ELSE Valid

\* Python's `x or default`: None and a zero Decimal are both falsy
OrDefault(x, default) == IF x = None \/ IsZero(x) THEN default ELSE x

\* The defaults with 1 for an omitted number of night hours
salary_defaults_night_hours_one(a) ==
    [hourly_rate             |-> a.hourly_rate,
     days_worked             |-> a.days_worked,
     night_hours             |-> OrDefault(a.night_hours, D(1, 0)),
     idle_days               |-> OrDefault(a.idle_days, Zero),
     travel_days             |-> OrDefault(a.travel_days, Zero),
     holiday_days            |-> OrDefault(a.holiday_days, Zero),
     additional_payments     |-> OrDefault(a.additional_payments, Zero),
     regional_allowance_rate |-> OrDefault(a.regional_allowance_rate, Zero),
     northern_allowance_rate |-> OrDefault(a.northern_allowance_rate, Zero)]

\* calculate_salary, lines 163-169: the optional parameters after their
\* defaults; v holds the function's local variables
salary_defaults(a) ==
    [hourly_rate             |-> a.hourly_rate,
     days_worked             |-> a.days_worked,
     night_hours             |-> OrDefault(a.night_hours, Zero),
     idle_days               |-> OrDefault(a.idle_days, Zero),
     travel_days             |-> OrDefault(a.travel_days, Zero),
     holiday_days            |-> OrDefault(a.holiday_days, Zero),
     additional_payments     |-> OrDefault(a.additional_payments, Zero),
     regional_allowance_rate |-> OrDefault(a.regional_allowance_rate, Zero),
     northern_allowance_rate |-> OrDefault(a.northern_allowance_rate, Zero)]

\* The right-hand sides of the assignments of lines 172-220, each over the
\* locals v assigned before it
hours_by_timesheet(v) == DecMul(v.days_worked, HOURS_PER_DAY)

salary_by_position(v) == DecMul(v.hours_by_timesheet, v.hourly_rate)

holiday_payment(v) == DecMul(DecMul(v.holiday_days, v.hourly_rate), HOURS_PER_DAY)

idle_payment(v) ==
    DecMul(DecMul(DecMul(v.idle_days, HOURS_PER_DAY), v.hourly_rate), IDLE_RATE)

travel_payment(v) == DecMul(DecMul(v.travel_days, v.hourly_rate), TRAVEL_HOURS_PER_DAY)

\* shift_method_payment on the days worked alone
shift_method_payment_without_travel(v) == DecMul(v.days_worked, SHIFT_METHOD_RATE)

shift_method_payment(v) == DecMul(DecAdd(v.days_worked, v.travel_days), SHIFT_METHOD_RATE)

night_shift_payment(v) ==
    DecMul(DecMul(v.night_hours, v.hourly_rate), DecDiv(NIGHT_SHIFT_RATE, Hundred))

\* monthly_bonus with holiday_payment in its base
monthly_bonus_with_holiday(v) ==
    DecMul(DecAdd(DecAdd(DecAdd(v.salary_by_position, v.holiday_payment),
                         v.idle_payment), v.night_shift_payment),
           DecDiv(MONTHLY_BONUS_RATE, Hundred))

monthly_bonus(v) ==
    DecMul(DecAdd(DecAdd(v.salary_by_position, v.idle_payment), v.night_shift_payment),
           DecDiv(MONTHLY_BONUS_RATE, Hundred))

\* salary_by_position + holiday_payment + night_shift_payment + monthly_bonus
\* + idle_payment, the sum both allowances are taken from
allowance_base(v) ==
    DecAdd(DecAdd(DecAdd(DecAdd(v.salary_by_position, v.holiday_payment),
                         v.night_shift_payment), v.monthly_bonus), v.idle_payment)

regional_allowance(v) ==
    DecMul(allowance_base(v), DecDiv(v.regional_allowance_rate, Hundred))

\* northern_allowance taken on top of regional_allowance
northern_allowance_compounded(v) ==
    DecMul(DecAdd(allowance_base(v), v.regional_allowance),
           DecDiv(v.northern_allowance_rate, Hundred))

northern_allowance(v) ==
    DecMul(allowance_base(v), DecDiv(v.northern_allowance_rate, Hundred))

\* total_accrued that leaves additional_payments out
total_accrued_without_additional(v) ==
    DecAdd(DecAdd(DecAdd(DecAdd(DecAdd(DecAdd(DecAdd(DecAdd(
        v.salary_by_position, v.holiday_payment), v.idle_payment), v.travel_payment),
        v.shift_method_payment), v.night_shift_payment), v.monthly_bonus),
        v.regional_allowance), v.northern_allowance)

total_accrued(v) ==
    DecAdd(DecAdd(DecAdd(DecAdd(DecAdd(DecAdd(DecAdd(DecAdd(DecAdd(
        v.salary_by_position, v.holiday_payment), v.idle_payment), v.travel_payment),
        v.shift_method_payment), v.night_shift_payment), v.monthly_bonus),
        v.regional_allowance), v.northern_allowance), v.additional_payments)

\* taxable_base that exempts nothing
taxable_base_without_exemptions(v) == v.total_accrued

taxable_base(v) == DecSub(DecSub(v.total_accrued, v.shift_method_payment), v.travel_payment)

tax(v) == DecMul(v.taxable_base, DecDiv(TAX_RATE, Hundred))

net(v) == DecSub(v.total_accrued, v.tax)

\* The local variables in the order lines 172-220 assign them
SalaryStatements ==
    <<"hours_by_timesheet", "salary_by_position", "holiday_payment", "idle_payment",
      "travel_payment", "shift_method_payment", "night_shift_payment", "monthly_bonus",
      "regional_allowance", "northern_allowance", "total_accrued", "taxable_base",
      "tax", "net">>

salary_statement(name, v) ==
    CASE name = "hours_by_timesheet"   -> hours_by_timesheet(v)
      [] name = "salary_by_position"   -> salary_by_position(v)
      [] name = "holiday_payment"      -> holiday_payment(v)
      [] name = "idle_payment"         -> idle_payment(v)
      [] name = "travel_payment"       -> travel_payment(v)
      [] name = "shift_method_payment" -> shift_method_payment(v)
      [] name = "night_shift_payment"  -> night_shift_payment(v)
      [] name = "monthly_bonus"        -> monthly_bonus(v)
      [] name = "regional_allowance"   -> regional_allowance(v)
      [] name = "northern_allowance"   -> northern_allowance(v)
      [] name = "total_accrued"        -> total_accrued(v)
      [] name = "taxable_base"         -> taxable_base(v)
      [] name = "tax"                  -> tax(v)
      [] name = "net"                  -> net(v)

\* The locals after the statements from the i-th on have run
RECURSIVE salary_run(_, _)
salary_run(v, i) ==
    IF i > Len(SalaryStatements) THEN v
    ELSE CHOOSE r \in
            {salary_run((SalaryStatements[i] :> salary_statement(SalaryStatements[i], w))
                          @@ w, i + 1) : w \in {v}} : TRUE

\* The dict of lines 222-246
salary_result(v) == CHOOSE r \in {[k \in SalaryResultKeys |-> w[k]] : w \in {v}} : TRUE

\* What a call produces: a returned dict, or a raised exception and no dict
NoSalaryResult == [k \in SalaryResultKeys |-> None]
Returned(value) == [kind |-> "return", exc |-> "", msg |-> "", value |-> value]
Raised(exc, msg, novalue) == [kind |-> "raise", exc |-> exc, msg |-> msg, value |-> novalue]

\* An arithmetic operation that traps (decimal.Overflow) propagates out of
\* the function as that exception
salary_outcome(result) ==
    CHOOSE o \in
        {IF \E k \in SalaryResultKeys : r[k].kind = "ovf"
         THEN Raised("decimal.Overflow", "", NoSalaryResult)
         ELSE Returned(r) : r \in {result}} : TRUE

\* calculate_salary: validation first, then the derivation
calculate_salary(a) ==
    CHOOSE o \in
        {IF reason # Valid
         THEN Raised("SalaryCalculationError", reason, NoSalaryResult)
         ELSE salary_outcome(salary_result(salary_run(salary_defaults(a), 1)))
            : reason \in {validate_salary_inputs(a)}} : TRUE

(***************************************************************************)
(* annual_bonus_service.py.  The module has its own HOURS_PER_DAY and      *)
(* TAX_RATE, with the values of salary_service.py's.  monthly_days, a      *)
(* dict, is the sequence of its items [k |-> key, d |-> days] in the       *)
(* dict's order, the keys distinct.                                        *)
(***************************************************************************)
DEFAULT_MONTHLY_BONUS_RATE     == D(33, 0)
DEFAULT_KPI_COEFFICIENT        == D(10, -1)
DEFAULT_CORRECTION_COEFFICIENT == D(10, -1)
MONTHS_IN_YEAR                 == D(12, 0)

\* The reasons carried by AnnualBonusCalculationError
ErrMonths         == "months in company must be between 1 and 12"
ErrMonthlyDaysLen == "days must be given for all 12 months"
ErrMonthNumber(month_num) ==
    "month number must be between 1 and 12, got: " \o ToString(month_num)
ErrMonthDaysNegative(month_num) ==
    "days in month " \o ToString(month_num) \o " cannot be negative"
ErrMonthDaysMax(month_num) ==
    "days in month " \o ToString(month_num) \o " cannot be more than 31"
ErrMonthlyBonusRate == "monthly bonus rate must be between 0 and 100%"
ErrTargetRate       == "target annual bonus rate must be between 0 and 100%"
ErrKpi              == "KPI coefficient cannot be negative"
ErrCorrection       == "correction coefficient cannot be negative"
ErrTargetRequired   == "target annual bonus rate (E104) is required"

AnnualParams ==
    {"hourly_rate", "months_in_company", "monthly_days", "monthly_bonus_rate",
     "target_annual_bonus_rate", "kpi_coefficient", "correction_coefficient",
     "regional_allowance_rate", "northern_allowance_rate"}

AnnualResultKeys ==
    {"hourly_rate", "months_in_company", "monthly_bonus_rate",
     "target_annual_bonus_rate", "kpi_coefficient", "correction_coefficient",
     "monthly_data", "average_monthly_base", "annual_base",
     "annual_reward_without_allowances", "regional_allowance_rate",
     "regional_allowance", "northern_allowance_rate", "northern_allowance",
     "total_accrued", "tax", "net"}

MonthKeys == {"name", "days", "hours", "salary", "bonus", "base"}

month_names ==
    <<"January", "February", "March", "April", "May", "June", "July", "August",
      "September", "October", "November", "December">>

OutOfPercent(x) == DecLt(x, Zero) \/ DecGt(x, Hundred)

\* One pass of the loop over monthly_days.items()
monthly_days_item(item) ==
    IF item.k < 1 \/ item.k > 12 THEN ErrMonthNumber(item.k)
    ELSE IF DecLt(item.d, Zero) THEN ErrMonthDaysNegative(item.k)
    ELSE IF DecGt(item.d, D(31, 0)) THEN ErrMonthDaysMax(item.k)
    ELSE Valid

RECURSIVE monthly_days_items(_, _)
monthly_days_items(monthly_days, i) ==
    IF i > Len(monthly_days) THEN Valid
    ELSE CHOOSE r \in
            {IF reason # Valid THEN reason ELSE monthly_days_items(monthly_days, i + 1)
                : reason \in {monthly_days_item(monthly_days[i])}} : TRUE

\* The checks after the loop
validate_annual_rates(a) ==
    IF a.monthly_bonus_rate # None /\ OutOfPercent(a.monthly_bonus_rate)
    THEN ErrMonthlyBonusRate
    ELSE IF a.target_annual_bonus_rate # None /\ OutOfPercent(a.target_annual_bonus_rate)
    THEN ErrTargetRate
    ELSE IF a.kpi_coefficient # None /\ DecLt(a.kpi_coefficient, Zero) THEN ErrKpi
    ELSE IF a.correction_coefficient # None /\ DecLt(a.correction_coefficient, Zero)
    THEN ErrCorrection
    ELSE IF a.regional_allowance_rate # None /\ OutOfPercent(a.regional_allowance_rate)
    THEN ErrRegional
    ELSE IF a.northern_allowance_rate # None /\ OutOfPercent(a.northern_allowance_rate)
    THEN ErrNorthern
    ELSE Valid

\* validate_annual_bonus_inputs: the reason of the first failing check, or Valid
validate_annual_bonus_inputs(a) ==
    IF DecLe(a.hourly_rate, Zero) THEN ErrHourlyRate
    ELSE IF DecLt(a.months_in_company, D(1, 0)) \/ DecGt(a.months_in_company, D(12, 0))
    THEN ErrMonths
    ELSE IF Len(a.monthly_days) # 12 THEN ErrMonthlyDaysLen
    ELSE CHOOSE r \in
            {IF reason # Valid THEN reason ELSE validate_annual_rates(a)
                : reason \in {monthly_days_items(a.monthly_days, 1)}} : TRUE

\* The defaults with one for target_annual_bonus_rate as well
annual_defaults_with_target(a) ==
    [a EXCEPT
        !.monthly_bonus_rate       = OrDefault(@, DEFAULT_MONTHLY_BONUS_RATE),
        !.target_annual_bonus_rate = OrDefault(@, Zero),
        !.kpi_coefficient          = OrDefault(@, DEFAULT_KPI_COEFFICIENT),
        !.correction_coefficient   = OrDefault(@, DEFAULT_CORRECTION_COEFFICIENT),
        !.regional_allowance_rate  = OrDefault(@, Zero),
        !.northern_allowance_rate  = OrDefault(@, Zero)]

\* calculate_annual_bonus, lines 154-158: the defaults, taken before the
\* validation; target_annual_bonus_rate has none
annual_defaults(a) ==
    [a EXCEPT
        !.monthly_bonus_rate      = OrDefault(@, DEFAULT_MONTHLY_BONUS_RATE),
        !.kpi_coefficient         = OrDefault(@, DEFAULT_KPI_COEFFICIENT),
        !.correction_coefficient  = OrDefault(@, DEFAULT_CORRECTION_COEFFICIENT),
        !.regional_allowance_rate = OrDefault(@, Zero),
        !.northern_allowance_rate = OrDefault(@, Zero)]

\* monthly_days.get(month_num, default)
monthly_days_get(monthly_days, month_num, default) ==
    IF \E i \in 1..Len(monthly_days) : monthly_days[i].k = month_num
    THEN monthly_days[CHOOSE i \in 1..Len(monthly_days) : monthly_days[i].k = month_num].d
    ELSE default

\* The sum of the monthly bases over the twelve months of the year
average_monthly_base_over_year(v) == DecDiv(v.total_base, MONTHS_IN_YEAR)

\* Line 213: the sum of the monthly bases over the months in the company
average_monthly_base(v) == DecDiv(v.total_base, v.months_in_company)

\* The reward without the share of the year worked
annual_reward_for_full_year(v) ==
    DecMul(DecMul(DecMul(v.annual_base,
                         DecDiv(v.target_annual_bonus_rate, Hundred)),
                  v.kpi_coefficient),
           v.correction_coefficient)

\* Lines 219-225
annual_reward_without_allowances(v) ==
    DecMul(DecMul(DecMul(DecMul(v.annual_base,
                                DecDiv(v.target_annual_bonus_rate, Hundred)),
                         v.kpi_coefficient),
                  v.correction_coefficient),
           DecDiv(v.months_in_company, MONTHS_IN_YEAR))

\* The right-hand sides of the assignments in the loop body (lines 187-210)
\* and after it (lines 213-240), each over the locals v assigned before it
annual_statement(name, v) ==
    CASE name = "days"     -> monthly_days_get(v.monthly_days, v.month_num, Zero)
      [] name = "hours"    -> DecMul(v.days, HOURS_PER_DAY)
      [] name = "salary"   -> DecMul(v.hours, v.hourly_rate)
      [] name = "bonus"    -> DecMul(v.salary, DecDiv(v.monthly_bonus_rate, Hundred))
      [] name = "base"     -> DecAdd(v.salary, v.bonus)
      [] name = "monthly_data" ->
            (v.month_num :> [name |-> month_names[v.month_num], days |-> v.days,
                             hours |-> v.hours, salary |-> v.salary,
                             bonus |-> v.bonus, base |-> v.base]) @@ v.monthly_data
      [] name = "total_base" -> DecAdd(v.total_base, v.base)
      [] name = "average_monthly_base" -> average_monthly_base(v)
      [] name = "annual_base" -> DecMul(v.average_monthly_base, MONTHS_IN_YEAR)
      [] name = "annual_reward_without_allowances" ->
            annual_reward_without_allowances(v)
      [] name = "regional_allowance" ->
            DecMul(v.annual_reward_without_allowances,
                   DecDiv(v.regional_allowance_rate, Hundred))
      [] name = "northern_allowance" ->
            DecMul(v.annual_reward_without_allowances,
                   DecDiv(v.northern_allowance_rate, Hundred))
      [] name = "total_accrued" ->
            DecAdd(DecAdd(v.annual_reward_without_allowances, v.regional_allowance),
                   v.northern_allowance)
      [] name = "tax" -> DecMul(v.total_accrued, DecDiv(TAX_RATE, Hundred))
      [] name = "net" -> DecSub(v.total_accrued, v.tax)

\* The local variables the loop body assigns, in order
MonthStatements ==
    <<"days", "hours", "salary", "bonus", "base", "monthly_data", "total_base">>

\* The local variables assigned after the loop, in order
AnnualStatements ==
    <<"average_monthly_base", "annual_base", "annual_reward_without_allowances",
      "regional_allowance", "northern_allowance", "total_accrued", "tax", "net">>

\* The locals after the statements of the list from the i-th on have run
RECURSIVE annual_run(_, _, _)
annual_run(v, statements, i) ==
    IF i > Len(statements) THEN v
    ELSE CHOOSE r \in
            {annual_run((statements[i] :> annual_statement(statements[i], w)) @@ w,
                        statements, i + 1) : w \in {v}} : TRUE

\* for month_num in range(1, 13)
RECURSIVE annual_months(_, _)
annual_months(v, month_num) ==
    IF month_num > 12 THEN v
    ELSE CHOOSE r \in
            {annual_months(annual_run(w, MonthStatements, 1), month_num + 1)
                : w \in {("month_num" :> month_num) @@ v}} : TRUE

\* Lines 177-178: monthly_data = {}, total_base = Decimal("0")
annual_locals(a) == [monthly_data |-> <<>>, total_base |-> Zero] @@ a

\* The dict of lines 242-260
annual_result(v) == CHOOSE r \in {[k \in AnnualResultKeys |-> w[k]] : w \in {v}} : TRUE

NoAnnualResult == [k \in AnnualResultKeys |-> None]

\* An arithmetic operation that traps (decimal.Overflow) propagates out of
\* the function as that exception; every operation feeds net
annual_outcome(result) ==
    CHOOSE o \in
        {IF r.net.kind = "ovf"
         THEN Raised("decimal.Overflow", "", NoAnnualResult)
         ELSE Returned(r) : r \in {result}} : TRUE

annual_derivation(a) ==
    annual_outcome(annual_result(
        annual_run(annual_months(annual_locals(a), 1), AnnualStatements, 1)))

\* calculate_annual_bonus: the defaults, the validation of the defaulted
\* values, the required target rate, then the derivation
calculate_annual_bonus(a) ==
    CHOOSE o \in
        {IF validate_annual_bonus_inputs(d) # Valid
         THEN Raised("AnnualBonusCalculationError", validate_annual_bonus_inputs(d),
                     NoAnnualResult)
         ELSE IF d.target_annual_bonus_rate = None
         THEN Raised("AnnualBonusCalculationError", ErrTargetRequired, NoAnnualResult)
         ELSE annual_derivation(d) : d \in {annual_defaults(a)}} : TRUE

(***************************************************************************)
(* format_salary_report.  The report is the sequence of its lines; a line  *)
(* is the label of the quantity it shows (the key of the calculation, or   *)
(* "title" and "accruals" for the two headings) and the numbers printed in *)
(* it, each as formatted: rounded to the places of its format.             *)
(***************************************************************************)
\* format(x, ".<places>f"): x rescaled to the exponent -places with the
\* context's rounding, ROUND_HALF_EVEN
DecFormat(x, places) ==
    IF x.e >= -places THEN x
    ELSE CHOOSE r \in
            {DecCanon(x.s, RoundedDigits(d, -places - x.e, FALSE), -places)
                : d \in {ToDigits(x.c) \o [i \in 1..(-places - x.e) |-> 0]}} : TRUE

ReportLine(label, shown) == <<[label |-> label, shown |-> shown]>>

\* if condition: report += line
ReportLineIf(condition, label, shown) ==
    IF condition THEN ReportLine(label, shown) ELSE <<>>

format_salary_report(calculation) ==
    CHOOSE r \in
        {ReportLine("title", <<>>)
         \o ReportLine("hourly_rate", <<DecFormat(c.hourly_rate, 2)>>)
         \o ReportLine("days_worked", <<DecFormat(c.days_worked, 0)>>)
         \o ReportLineIf(DecGt(c.idle_days, Zero), "idle_days",
                         <<DecFormat(c.idle_days, 0)>>)
         \o ReportLine("hours_by_timesheet", <<DecFormat(c.hours_by_timesheet, 1)>>)
         \o ReportLine("accruals", <<>>)
         \o ReportLine("salary_by_position", <<DecFormat(c.salary_by_position, 2)>>)
         \o ReportLineIf(DecGt(c.holiday_days, Zero), "holiday_payment",
                         <<DecFormat(c.holiday_days, 0), DecFormat(c.holiday_payment, 2)>>)
         \o ReportLineIf(DecGt(c.idle_days, Zero), "idle_payment",
                         <<DecFormat(c.idle_days, 0), DecFormat(c.idle_payment, 2)>>)
         \o ReportLineIf(DecGt(c.travel_days, Zero), "travel_payment",
                         <<DecFormat(c.travel_days, 0), DecFormat(c.travel_payment, 2)>>)
         \o ReportLine("shift_method_payment", <<DecFormat(c.shift_method_payment, 2)>>)
         \o ReportLineIf(DecGt(c.night_hours, Zero), "night_shift_payment",
                         <<DecFormat(c.night_hours, 1), DecFormat(c.night_shift_payment, 2)>>)
         \o ReportLineIf(DecGt(c.monthly_bonus, Zero), "monthly_bonus",
                         <<DecFormat(c.monthly_bonus, 2)>>)
         \o ReportLineIf(DecGt(c.regional_allowance_rate, Zero), "regional_allowance",
                         <<DecFormat(c.regional_allowance_rate, 1),
                           DecFormat(c.regional_allowance, 2)>>)
         \o ReportLineIf(DecGt(c.northern_allowance_rate, Zero), "northern_allowance",
                         <<DecFormat(c.northern_allowance_rate, 1),
                           DecFormat(c.northern_allowance, 2)>>)
         \o ReportLineIf(DecGt(c.additional_payments, Zero), "additional_payments",
                         <<DecFormat(c.additional_payments, 2)>>)
         \o ReportLine("total_accrued", <<DecFormat(c.total_accrued, 2)>>)
         \o ReportLine("tax", <<DecFormat(c.tax, 2)>>)
         \o ReportLine("net", <<DecFormat(c.net, 2)>>) : c \in {calculation}} : TRUE

\* No report has been formatted
NoReport == <<>>

(***************************************************************************)
(* WeatherCache (ForecastCache and FlightForecastCache are the same code): *)
(* its state.  The cached data is one of a few values, Nothing is Python's *)
(* None; the clock counts seconds from StartTime, far enough from 0 for    *)
(* the timestamp 0 of an empty cache to lie a full duration in the past.   *)
(***************************************************************************)
Nothing == "None"
Data == {"w1", "w2"}

CacheThreads == {"t1", "t2"}

\* Seconds the clock may advance
MaxTime == 3

\* time.time() when the cache is created
StartTime == 10

\* WeatherCache(cache_duration=...)
Durations == {0, 2}

\* A thread's locals outside a call
IdleLocals ==
    [op |-> "none", arg |-> Nothing, current_time |-> -1, ret |-> Nothing,
     started |-> -1]

NoSet == [value |-> Nothing, at |-> -1]

\* __init__: an empty cache with timestamp 0
NewCache(duration, callers) ==
    /\ cache = Nothing
    /\ cache_timestamp = 0
    /\ cache_duration = duration
    /\ now = StartTime
    /\ threads = callers
    /\ tpc = [t \in CacheThreads |-> "idle"]
    /\ tloc = [t \in CacheThreads |-> IdleLocals]
    /\ base = [cache |-> Nothing, cache_timestamp |-> 0]
    /\ lastSet = NoSet

\* The calculators' callers never touch a cache
NoCacheUse == NewCache(0, {})

\* No get_weather call has issued a request
NoFetchUse ==
    /\ requests = [t \in CacheThreads |-> "none"]
    /\ fetched = {}

\* No flight forecast is being analysed
NoFlightUse ==
    /\ forecast = <<>>
    /\ daily_analyses = <<>>

(***************************************************************************)
(* The database (app/database/db.py): state.  The database file is the     *)
(* schema and the committed rows of its three tables; a session holds the  *)
(* rows added to it and not yet flushed.                                   *)
(***************************************************************************)
Tables == {"users", "salary_records", "weather_records"}

\* class User
UserColumns ==
    {"id", "telegram_id", "username", "first_name", "last_name", "created_at",
     "updated_at"}

\* class SalaryRecord
SalaryColumns ==
    {"id", "telegram_id", "username", "hourly_rate", "days_worked", "night_hours",
     "travel_days", "holiday_days", "idle_days", "additional_payments",
     "salary_by_position", "shift_method_payment", "monthly_bonus",
     "regional_allowance", "northern_allowance", "net", "created_at"}

\* class WeatherRecord
WeatherColumns == {"id", "user_id", "city", "weather_data", "created_at"}

\* The structure salary_records had before the shift-method fields
LegacySalaryColumns ==
    {"id", "user_id", "base_salary", "hours_worked", "gross",
     "gross_with_coefficient", "total", "tax", "net", "bonus", "created_at"}

\* Base.metadata: the columns of each mapped table
Metadata(table) ==
    CASE table = "users"           -> UserColumns
      [] table = "salary_records"  -> SalaryColumns
      [] table = "weather_records" -> WeatherColumns

\* A file with no table in it
NoTables == [table \in Tables |-> {}]

\* The clients of the database: each works with a session of its own
DbClients == {"c1", "c2"}

\* No session obtained yet
NoSession == [state |-> "none", pending |-> <<>>, ended |-> "none"]

\* A client outside a call
IdleClient == [op |-> "none"]

\* _engine = None, _SessionLocal = None, and a file with nothing in it
NoDatabase ==
    /\ engine = Nothing
    /\ SessionLocal = Nothing
    /\ schema = NoTables
    /\ users = <<>>
    /\ salary_records = <<>>
    /\ weather_records = <<>>
    /\ sessions = [c \in DbClients |-> NoSession]
    /\ dpc = [c \in DbClients |-> "idle"]
    /\ dloc = [c \in DbClients |-> IdleClient]
    /\ dcalls = 0
    /\ init_ok = FALSE

\* The calculators and the caches never touch the database
NoDbUse == NoDatabase

\* No call of error_handler is under way
NoErrorCall == [op |-> "none"]

\* error_handler has not been called
NoErrorUse ==
    /\ epc = "idle"
    /\ eloc = NoErrorCall
    /\ ecalls = 0

\* Nobody is in a dialogue and user_data is the empty dict
NoDialogueUse ==
    /\ salary_conv_handler = "END"
    /\ annual_bonus_conv_handler = "END"
    /\ user_data = <<>>
    /\ outage = FALSE
    /\ saved_in_run = 0

\* The bot's handlers are not running
NoBotUse == NoErrorUse /\ NoDialogueUse

(***************************************************************************)
(* The callers.  A caller makes a call, looks at what it produced, and may *)
(* call again with one argument changed; the previous call is kept so that *)
(* two calls can be compared.                                              *)
(***************************************************************************)
MaxCalls == 2

Huge == D(1, 999999)     \* Decimal("1E+999999")
Tiny == D(1, -30)        \* Decimal("1E-30")

\* test_calculate_salary_basic: every optional parameter omitted
SalaryBasic ==
    [hourly_rate |-> D(1000, 0), days_worked |-> D(15, 0), night_hours |-> None,
     idle_days |-> None, travel_days |-> None, holiday_days |-> None,
     additional_payments |-> None, regional_allowance_rate |-> None,
     northern_allowance_rate |-> None]

\* test_calculate_salary_full: every parameter supplied
SalaryFull ==
    [hourly_rate |-> D(1000, 0), days_worked |-> D(15, 0), night_hours |-> D(20, 0),
     idle_days |-> D(2, 0), travel_days |-> D(2, 0), holiday_days |-> D(1, 0),
     additional_payments |-> D(5000, 0), regional_allowance_rate |-> D(20, 0),
     northern_allowance_rate |-> D(50, 0)]

\* The other inputs of the tests: one optional parameter supplied, or the
\* two allowance rates
SalaryNight      == [SalaryBasic EXCEPT !.night_hours = D(20, 0)]
SalaryIdle       == [SalaryBasic EXCEPT !.idle_days = D(2, 0)]
SalaryTravel     == [SalaryBasic EXCEPT !.travel_days = D(2, 0)]
SalaryHoliday    == [SalaryBasic EXCEPT !.holiday_days = D(1, 0)]
SalaryAllowances == [SalaryBasic EXCEPT !.regional_allowance_rate = D(20, 0),
                                        !.northern_allowance_rate = D(50, 0)]

\* The checks of validate_salary_inputs in their order, with the parameter
\* each reads and a value that fails it
SalaryChecks ==
    << [param |-> "hourly_rate",             bad |-> Zero],
       [param |-> "days_worked",             bad |-> D(-5, 0)],
       [param |-> "days_worked",             bad |-> D(366, 0)],
       [param |-> "night_hours",             bad |-> D(-1, 0)],
       [param |-> "idle_days",               bad |-> D(-1, 0)],
       [param |-> "travel_days",             bad |-> D(-1, 0)],
       [param |-> "holiday_days",            bad |-> D(-1, 0)],
       [param |-> "additional_payments",     bad |-> D(-1, 0)],
       [param |-> "regional_allowance_rate", bad |-> D(150, 0)],
       [param |-> "northern_allowance_rate", bad |-> D(-10, 0)] >>

\* Arguments that pass the checks before the k-th and fail the k-th and
\* every later one
RECURSIVE SpoilFrom(_, _)
SpoilFrom(a, k) ==
    IF k > Len(SalaryChecks) THEN a
    ELSE SpoilFrom([a EXCEPT ![SalaryChecks[k].param] = SalaryChecks[k].bad], k + 1)

SalaryInvalidFrom(k) ==
    IF SalaryChecks[k].param = "days_worked"
    THEN [SpoilFrom(SalaryFull, k + 1) EXCEPT !.days_worked = SalaryChecks[k].bad]
    ELSE SpoilFrom(SalaryFull, k)

SalaryStart ==
    {SalaryBasic, SalaryNight, SalaryIdle, SalaryTravel, SalaryHoliday,
     SalaryAllowances, SalaryFull}
        \cup {SalaryInvalidFrom(k) : k \in 1..Len(SalaryChecks)}

\* The values a caller passes for a parameter
SalaryValues(p) ==
    CASE p = "hourly_rate"             -> {D(1000, 0), Zero, Huge, Tiny}
      [] p = "days_worked"             -> {D(15, 0), D(1, 0), Zero, D(365, 0), D(-5, 0), D(366, 0)}
      [] p = "night_hours"             -> {None, Zero, D(20, 0), D(-1, 0)}
      [] p = "idle_days"               -> {None, D(1, 0), D(2, 0), D(-1, 0)}
      [] p = "travel_days"             -> {None, D(1, 0), D(2, 0), D(-1, 0)}
      [] p = "holiday_days"            -> {None, D(1, 0), D(-1, 0)}
      [] p = "additional_payments"     -> {None, Zero, D(5000, 0), D(600000, 0), D(-1, 0)}
      [] p = "regional_allowance_rate" -> {None, Zero, D(20, 0), D(100, 0), D(150, 0), D(-10, 0)}
      [] p = "northern_allowance_rate" -> {None, Zero, D(50, 0), D(100, 0), D(150, 0), D(-10, 0)}

\* Scenario C: 20 days in every month, target rate 20, no allowances
EveryMonth(days) == [m \in 1..12 |-> [k |-> m, d |-> days]]

AnnualScenario ==
    [hourly_rate |-> D(1000, 0), months_in_company |-> D(12, 0),
     monthly_days |-> EveryMonth(D(20, 0)), monthly_bonus_rate |-> D(33, 0),
     target_annual_bonus_rate |-> D(20, 0), kpi_coefficient |-> D(10, -1),
     correction_coefficient |-> D(10, -1), regional_allowance_rate |-> Zero,
     northern_allowance_rate |-> Zero]

\* Only the required parameters, half a year worked
AnnualRequired ==
    [hourly_rate |-> D(1000, 0), months_in_company |-> D(6, 0),
     monthly_days |-> [m \in 1..12 |-> [k |-> m, d |-> IF m <= 6 THEN D(15, 0) ELSE Zero]],
     monthly_bonus_rate |-> None, target_annual_bonus_rate |-> D(20, 0),
     kpi_coefficient |-> None, correction_coefficient |-> None,
     regional_allowance_rate |-> None, northern_allowance_rate |-> None]

\* Seven months worked, both allowances and a KPI above 1
AnnualAllowances ==
    [hourly_rate |-> D(1000, 0), months_in_company |-> D(7, 0),
     monthly_days |-> [m \in 1..12 |-> [k |-> m, d |-> IF m <= 7 THEN D(20, 0) ELSE Zero]],
     monthly_bonus_rate |-> D(33, 0), target_annual_bonus_rate |-> D(20, 0),
     kpi_coefficient |-> D(15, -1), correction_coefficient |-> D(10, -1),
     regional_allowance_rate |-> D(20, 0), northern_allowance_rate |-> D(50, 0)]

AnnualStart == {AnnualScenario, AnnualRequired, AnnualAllowances}

\* The dicts a caller passes as monthly_days
MonthlyDaysValues ==
    {EveryMonth(D(20, 0)), EveryMonth(Zero), AnnualRequired.monthly_days,
     SubSeq(EveryMonth(D(20, 0)), 1, 11),
     [EveryMonth(D(20, 0)) EXCEPT ![12].k = 13],
     [EveryMonth(D(20, 0)) EXCEPT ![3].d = D(-1, 0)],
     [EveryMonth(D(20, 0)) EXCEPT ![3].d = D(32, 0)],
     [i \in 1..12 |-> [k |-> 13 - i, d |-> D(i, 0)]]}

\* The values a caller passes for a parameter
AnnualValues(p) ==
    CASE p = "hourly_rate"              -> {D(1000, 0), Zero, Huge}
      [] p = "months_in_company"        -> {D(12, 0), D(6, 0), D(7, 0), D(1, 0), Zero, D(13, 0)}
      [] p = "monthly_days"             -> MonthlyDaysValues
      [] p = "monthly_bonus_rate"       -> {None, Zero, D(33, 0), D(50, 0), D(150, 0)}
      [] p = "target_annual_bonus_rate" -> {None, Zero, D(20, 0), D(100, 0), D(150, 0)}
      [] p = "kpi_coefficient"          -> {None, Zero, D(10, -1), D(15, -1), D(-1, 0)}
      [] p = "correction_coefficient"   -> {None, Zero, D(10, -1), D(-1, 0)}
      [] p = "regional_allowance_rate"  -> {None, Zero, D(20, 0), D(150, 0)}
      [] p = "northern_allowance_rate"  -> {None, Zero, D(50, 0), D(-10, 0)}

\* Before a call has run there is no outcome
NoSalaryOutcome == [kind |-> "none", exc |-> "", msg |-> "", value |-> NoSalaryResult]
NoAnnualOutcome == [kind |-> "none", exc |-> "", msg |-> "", value |-> NoAnnualResult]

Init ==
    /\ \/ fn = "salary" /\ args \in SalaryStart /\ outcome = NoSalaryOutcome
       \/ fn = "annual" /\ args \in AnnualStart /\ outcome = NoAnnualOutcome
    /\ pc = "ready"
    /\ prevArgs = args
    /\ prevOutcome = outcome
    /\ ncalls = 1
    /\ report = NoReport
    /\ NoCacheUse
    /\ NoFetchUse
    /\ NoFlightUse
    /\ NoDbUse
    /\ NoBotUse

\* The caller runs calculate_salary(**args) to completion and, as
\* confirm_salary does, formats the report from what it returned
CalculateSalary ==
    /\ fn = "salary"
    /\ pc = "ready"
    /\ outcome' = calculate_salary(args)
    /\ pc' = IF outcome'.kind = "return" THEN "returned" ELSE "raised"
    /\ report' = IF outcome'.kind = "return"
                 THEN format_salary_report(outcome'.value) ELSE NoReport
    /\ UNCHANGED <<fn, args, prevArgs, prevOutcome, ncalls>>
    /\ UNCHANGED <<cacheVars, fetchVars, flightVars, dbVars, botVars>>

\* The caller prepares another call: the same arguments with parameter p
\* set to v
NextSalaryCall ==
    /\ fn = "salary"
    /\ pc # "ready"
    /\ ncalls < MaxCalls
    /\ \E p \in SalaryParams : \E v \in SalaryValues(p) :
          args' = [args EXCEPT ![p] = v]
    /\ prevArgs' = args
    /\ prevOutcome' = outcome
    /\ outcome' = NoSalaryOutcome
    /\ pc' = "ready"
    /\ ncalls' = ncalls + 1
    /\ report' = NoReport
    /\ UNCHANGED fn
    /\ UNCHANGED <<cacheVars, fetchVars, flightVars, dbVars, botVars>>

\* A call that stores the defaulted values in the caller's arguments
CalculateAnnualBonusDefaultsInPlace ==
    /\ fn = "annual"
    /\ pc = "ready"
    /\ outcome' = calculate_annual_bonus(args)
    /\ pc' = IF outcome'.kind = "return" THEN "returned" ELSE "raised"
    /\ args' = annual_defaults(args)
    /\ UNCHANGED <<fn, prevArgs, prevOutcome, ncalls, report>>
    /\ UNCHANGED <<cacheVars, fetchVars, flightVars, dbVars, botVars>>

\* The caller runs calculate_annual_bonus(**args) to completion
CalculateAnnualBonus ==
    /\ fn = "annual"
    /\ pc = "ready"
    /\ outcome' = calculate_annual_bonus(args)
    /\ pc' = IF outcome'.kind = "return" THEN "returned" ELSE "raised"
    /\ UNCHANGED <<fn, args, prevArgs, prevOutcome, ncalls, report>>
    /\ UNCHANGED <<cacheVars, fetchVars, flightVars, dbVars, botVars>>

NextAnnualCall ==
    /\ fn = "annual"
    /\ pc # "ready"
    /\ ncalls < MaxCalls
    /\ \E p \in AnnualParams : \E v \in AnnualValues(p) :
          args' = [args EXCEPT ![p] = v]
    /\ prevArgs' = args
    /\ prevOutcome' = outcome
    /\ outcome' = NoAnnualOutcome
    /\ pc' = "ready"
    /\ ncalls' = ncalls + 1
    /\ UNCHANGED <<fn, report>>
    /\ UNCHANGED <<cacheVars, fetchVars, flightVars, dbVars, botVars>>

Next == CalculateSalary \/ NextSalaryCall \/ CalculateAnnualBonus \/ NextAnnualCall

Spec == Init /\ [][Next]_vars

(***************************************************************************)
(* WeatherCache: the methods, one step per statement, run by the threads   *)
(* that share the cache.  Nothing in the class takes a lock, so another    *)
(* thread may run between any two statements of a method.                  *)
(***************************************************************************)
\* No calculator is in use while the cache is exercised
NoCalculatorUse ==
    /\ fn = "none"
    /\ args = <<>>
    /\ pc = "ready"
    /\ outcome = NoSalaryOutcome
    /\ prevArgs = <<>>
    /\ prevOutcome = NoSalaryOutcome
    /\ ncalls = 0
    /\ report = NoReport

calculatorVars == <<fn, args, pc, outcome, prevArgs, prevOutcome, ncalls, report>>

CacheOps == {"get", "set", "clear", "is_valid"}

\* The first statement of each method
FirstLine(op) ==
    CASE op = "get"      -> "get:52"
      [] op = "set"      -> "set:71"
      [] op = "clear"    -> "clear:76"
      [] op = "is_valid" -> "is_valid:86"

\* The test with > in place of >=
ExpiredAfter(current_time, timestamp, duration) ==
    (current_time - timestamp) > duration

\* Line 56: (current_time - self._cache_timestamp) >= self._cache_duration
Expired(current_time, timestamp, duration) ==
    (current_time - timestamp) >= duration

\* The test with <= in place of <
StillValidAtDuration(current_time, timestamp, duration) ==
    (current_time - timestamp) <= duration

\* Line 90: (current_time - self._cache_timestamp) < self._cache_duration
StillValid(current_time, timestamp, duration) ==
    (current_time - timestamp) < duration

\* A method of the cache run from its first statement to its return with no
\* other thread in between, at time T, on the content st: the content it
\* leaves and what it returns
SeqCall(st, call, T) ==
    CASE call.op = "get" ->
            IF st.cache = Nothing
            THEN [cache |-> st.cache, cache_timestamp |-> st.cache_timestamp,
                  ret |-> Nothing]
            ELSE IF Expired(T, st.cache_timestamp, cache_duration)
            THEN [cache |-> Nothing, cache_timestamp |-> 0, ret |-> Nothing]
            ELSE [cache |-> st.cache, cache_timestamp |-> st.cache_timestamp,
                  ret |-> st.cache]
      [] call.op = "set" ->
            [cache |-> call.arg, cache_timestamp |-> T, ret |-> Nothing]
      [] call.op = "clear" ->
            [cache |-> Nothing, cache_timestamp |-> 0, ret |-> Nothing]
      [] call.op = "is_valid" ->
            [cache |-> st.cache, cache_timestamp |-> st.cache_timestamp,
             ret |-> IF st.cache # Nothing
                        /\ ~Expired(T, st.cache_timestamp, cache_duration)
                     THEN "True" ELSE "False"]

\* Thread t goes on to the statement at line
Goto(t, line) ==
    /\ tpc' = [tpc EXCEPT ![t] = line]
    /\ tloc' = tloc

\* Thread t returns value
Return(t, value) ==
    /\ tpc' = [tpc EXCEPT ![t] = "done"]
    /\ tloc' = [tloc EXCEPT ![t].ret = value]

\* current_time = time.time()
ReadClock(t, line) ==
    /\ tpc' = [tpc EXCEPT ![t] = line]
    /\ tloc' = [tloc EXCEPT ![t].current_time = now]

\* An idle thread calls a method of the cache
Call ==
    \E t \in threads : \E op \in CacheOps :
    \E data \in IF op = "set" THEN Data ELSE {Nothing} :
        /\ tpc[t] = "idle"
        /\ tpc' = [tpc EXCEPT ![t] = FirstLine(op)]
        /\ tloc' = [tloc EXCEPT ![t] = [IdleLocals EXCEPT !.op = op, !.arg = data,
                                                         !.started = now]]
        /\ UNCHANGED <<cache, cache_timestamp, cache_duration, now, threads, base,
                       lastSet>>
        /\ UNCHANGED <<calculatorVars, fetchVars, flightVars, dbVars, botVars>>

\* WeatherCache.get, lines 52-62
WeatherCache_get ==
    \E t \in threads :
        /\ \/ /\ tpc[t] = "get:52"
              /\ IF cache = Nothing THEN Return(t, Nothing) ELSE Goto(t, "get:55")
              /\ UNCHANGED <<cache, cache_timestamp>>
           \/ /\ tpc[t] = "get:55"
              /\ ReadClock(t, "get:56")
              /\ UNCHANGED <<cache, cache_timestamp>>
           \/ /\ tpc[t] = "get:56"
              /\ IF Expired(tloc[t].current_time, cache_timestamp, cache_duration)
                 THEN Goto(t, "get:58") ELSE Goto(t, "get:62")
              /\ UNCHANGED <<cache, cache_timestamp>>
           \/ /\ tpc[t] = "get:58"
              /\ cache' = Nothing
              /\ Goto(t, "get:59")
              /\ UNCHANGED cache_timestamp
           \/ /\ tpc[t] = "get:59"
              /\ cache_timestamp' = 0
              /\ Return(t, Nothing)
              /\ UNCHANGED cache
           \/ /\ tpc[t] = "get:62"
              /\ Return(t, cache)
              /\ UNCHANGED <<cache, cache_timestamp>>
        /\ UNCHANGED <<cache_duration, now, threads, base, lastSet>>
        /\ UNCHANGED <<calculatorVars, fetchVars, flightVars, dbVars, botVars>>

\* WeatherCache.set, lines 71-72
WeatherCache_set ==
    \E t \in threads :
        /\ \/ /\ tpc[t] = "set:71"
              /\ cache' = tloc[t].arg
              /\ Goto(t, "set:72")
              /\ UNCHANGED <<cache_timestamp, lastSet>>
           \/ /\ tpc[t] = "set:72"
              /\ cache_timestamp' = now
              /\ tpc' = [tpc EXCEPT ![t] = "done"]
              /\ tloc' = [tloc EXCEPT ![t].current_time = now]
              /\ lastSet' = [value |-> tloc[t].arg, at |-> now]
              /\ UNCHANGED cache
        /\ UNCHANGED <<cache_duration, now, threads, base>>
        /\ UNCHANGED <<calculatorVars, fetchVars, flightVars, dbVars, botVars>>

\* WeatherCache.clear, lines 76-77
WeatherCache_clear ==
    \E t \in threads :
        /\ \/ /\ tpc[t] = "clear:76"
              /\ cache' = Nothing
              /\ Goto(t, "clear:77")
              /\ UNCHANGED <<cache_timestamp, lastSet>>
           \/ /\ tpc[t] = "clear:77"
              /\ cache_timestamp' = 0
              /\ Return(t, Nothing)
              /\ lastSet' = NoSet
              /\ UNCHANGED cache
        /\ UNCHANGED <<cache_duration, now, threads, base>>
        /\ UNCHANGED <<calculatorVars, fetchVars, flightVars, dbVars, botVars>>

\* WeatherCache.is_valid, lines 86-90
WeatherCache_is_valid ==
    \E t \in threads :
        /\ \/ /\ tpc[t] = "is_valid:86"
              /\ IF cache = Nothing THEN Return(t, "False") ELSE Goto(t, "is_valid:89")
           \/ /\ tpc[t] = "is_valid:89"
              /\ ReadClock(t, "is_valid:90")
           \/ /\ tpc[t] = "is_valid:90"
              /\ Return(t, IF StillValid(tloc[t].current_time, cache_timestamp,
                                         cache_duration)
                           THEN "True" ELSE "False")
        /\ UNCHANGED <<cache, cache_timestamp, cache_duration, now, threads, base,
                       lastSet>>
        /\ UNCHANGED <<calculatorVars, fetchVars, flightVars, dbVars, botVars>>

\* Every call under way has returned: the callers take the results and are
\* free to call again
Collect ==
    /\ \A t \in threads : tpc[t] \in {"idle", "done"}
    /\ \E t \in threads : tpc[t] = "done"
    /\ tpc' = [t \in CacheThreads |-> "idle"]
    /\ tloc' = [t \in CacheThreads |-> IdleLocals]
    /\ base' = [cache |-> cache, cache_timestamp |-> cache_timestamp]
    /\ UNCHANGED <<cache, cache_timestamp, cache_duration, now, threads, lastSet>>
    /\ UNCHANGED <<calculatorVars, fetchVars, flightVars, dbVars, botVars>>

\* A second passes
Tick ==
    /\ now < StartTime + MaxTime
    /\ now' = now + 1
    /\ UNCHANGED <<cache, cache_timestamp, cache_duration, threads, tpc, tloc, base,
                   lastSet>>
    /\ UNCHANGED <<calculatorVars, fetchVars, flightVars, dbVars, botVars>>

CacheNext ==
    \/ Call
    \/ WeatherCache_get
    \/ WeatherCache_set
    \/ WeatherCache_clear
    \/ WeatherCache_is_valid
    \/ Collect
    \/ Tick

\* One caller: the calls follow one another
CacheInit ==
    /\ NoCalculatorUse
    /\ NoFetchUse
    /\ NoFlightUse
    /\ NoDbUse
    /\ NoBotUse
    /\ \E duration \in Durations : NewCache(duration, {"t1"})

CacheSpec == CacheInit /\ [][CacheNext]_vars

\* Two threads share the cache
ThreadsInit ==
    /\ NoCalculatorUse
    /\ NoFetchUse
    /\ NoFlightUse
    /\ NoDbUse
    /\ NoBotUse
    /\ \E duration \in Durations : NewCache(duration, CacheThreads)

ThreadsSpec == ThreadsInit /\ [][CacheNext]_vars

(***************************************************************************)
(* get_weather (app/services/weather_service.py): coroutines that share    *)
(* the cache.  A coroutine runs without interruption from one await to the *)
(* next; while it awaits the response or its body, the other may run and   *)
(* the clock may advance.                                                  *)
(***************************************************************************)
\* The bodies a 200 response may carry: "r1" has every field get_weather
\* reads, "malformed" lacks one
Bodies == {"r1", "malformed"}

\* What the request may come to: a response with its status, or an error
Answers == {"200", "401", "ClientError", "Exception"}

\* api_key and os.getenv("WEATHER_API_KEY")
ApiKeys == {Nothing, "key"}

\* Lines 141-152: weather_data built at current_time from the body; it
\* carries the body's values and the time as its "timestamp"
WeatherData(data, current_time) == data \o "@" \o ToString(current_time)

\* A coroutine's locals at the start of get_weather
FetchLocals(api_key) ==
    [op |-> "get_weather", arg |-> api_key, current_time |-> now, ret |-> Nothing,
     started |-> now, cached_data |-> Nothing, key |-> api_key,
     found |-> [cache |-> cache, cache_timestamp |-> cache_timestamp],
     erased |-> FALSE, stored |-> Nothing, seen |-> fetched]

\* get_weather returns value
FetchReturn(t, locals, value) ==
    /\ tpc' = [tpc EXCEPT ![t] = "done"]
    /\ tloc' = [tloc EXCEPT ![t] = [locals EXCEPT !.ret = value]]

\* Lines 111-136: the cache is looked up; on a miss the key is taken from
\* the argument or the environment and the request is sent
GetWeatherUpToRequest(t, api_key, env_key) ==
    LET st     == [cache |-> cache, cache_timestamp |-> cache_timestamp]
        got    == SeqCall(st, [op |-> "get", arg |-> Nothing], now)
        key    == IF api_key # Nothing THEN api_key ELSE env_key
        locals == [FetchLocals(api_key) EXCEPT
                       !.cached_data = got.ret,
                       !.key = key,
                       !.erased = (got.cache # cache)]
    IN  /\ cache' = got.cache
        /\ cache_timestamp' = got.cache_timestamp
        /\ IF got.ret # Nothing
           THEN FetchReturn(t, locals, got.ret) /\ UNCHANGED requests
           ELSE IF key = Nothing
           THEN FetchReturn(t, locals, Nothing) /\ UNCHANGED requests
           ELSE /\ tpc' = [tpc EXCEPT ![t] = "get_weather:136"]
                /\ tloc' = [tloc EXCEPT ![t] = locals]
                /\ requests' = [requests EXCEPT ![t] = "sent"]

\* A caller calls get_weather(api_key, cache)
GetWeather ==
    \E t \in threads : \E api_key \in ApiKeys : \E env_key \in ApiKeys :
        /\ tpc[t] = "idle"
        /\ GetWeatherUpToRequest(t, api_key, env_key)
        /\ UNCHANGED <<cache_duration, now, threads, base, lastSet, fetched>>
        /\ UNCHANGED <<calculatorVars, flightVars, dbVars, botVars>>

\* The request is answered and the status is not looked at
AnswerWithAnyStatus ==
    \E t \in threads : \E answer \in Answers :
        /\ tpc[t] = "get_weather:136"
        /\ requests' = [requests EXCEPT ![t] = answer]
        /\ IF answer \in {"200", "401"}
           THEN Goto(t, "get_weather:138")
           ELSE FetchReturn(t, tloc[t], Nothing)
        /\ UNCHANGED <<cache, cache_timestamp, cache_duration, now, threads, base,
                       lastSet, fetched>>
        /\ UNCHANGED <<calculatorVars, flightVars, dbVars, botVars>>

\* Lines 136-137 and 160-169: the request is answered.  With status 200 the
\* body is awaited; any other status, an aiohttp.ClientError and any other
\* exception end the call with None
Answer ==
    \E t \in threads : \E answer \in Answers :
        /\ tpc[t] = "get_weather:136"
        /\ requests' = [requests EXCEPT ![t] = answer]
        /\ IF answer = "200"
           THEN Goto(t, "get_weather:138")
           ELSE FetchReturn(t, tloc[t], Nothing)
        /\ UNCHANGED <<cache, cache_timestamp, cache_duration, now, threads, base,
                       lastSet, fetched>>
        /\ UNCHANGED <<calculatorVars, flightVars, dbVars, botVars>>

\* Lines 138-158: the body has arrived; weather_data is built from it, put
\* in the cache and returned.  A body that lacks a field raises KeyError,
\* which line 167 turns into None
StoreAndReturn ==
    \E t \in threads : \E data \in Bodies :
        /\ tpc[t] = "get_weather:138"
        /\ IF data = "malformed"
           THEN /\ FetchReturn(t, tloc[t], Nothing)
                /\ UNCHANGED <<cache, cache_timestamp, lastSet, fetched>>
           ELSE LET weather_data == WeatherData(data, now)
                    set == SeqCall([cache |-> cache,
                                    cache_timestamp |-> cache_timestamp],
                                   [op |-> "set", arg |-> weather_data], now)
                IN  /\ cache' = set.cache
                    /\ cache_timestamp' = set.cache_timestamp
                    /\ lastSet' = [value |-> weather_data, at |-> now]
                    /\ fetched' = fetched \cup {[value |-> weather_data, at |-> now]}
                    /\ FetchReturn(t, [tloc[t] EXCEPT !.stored = weather_data],
                                   weather_data)
        /\ UNCHANGED <<cache_duration, now, threads, base, requests>>
        /\ UNCHANGED <<calculatorVars, flightVars, dbVars, botVars>>

\* Every call under way has returned: the callers take the results and are
\* free to call again
Gather ==
    /\ \A t \in threads : tpc[t] \in {"idle", "done"}
    /\ \E t \in threads : tpc[t] = "done"
    /\ tpc' = [t \in CacheThreads |-> "idle"]
    /\ tloc' = [t \in CacheThreads |-> IdleLocals]
    /\ requests' = [t \in CacheThreads |-> "none"]
    /\ base' = [cache |-> cache, cache_timestamp |-> cache_timestamp]
    /\ UNCHANGED <<cache, cache_timestamp, cache_duration, now, threads, lastSet,
                   fetched>>
    /\ UNCHANGED <<calculatorVars, flightVars, dbVars, botVars>>

FetchNext ==
    \/ GetWeather
    \/ Answer
    \/ StoreAndReturn
    \/ Gather
    \/ Tick

\* Two coroutines share an empty cache
FetchInit ==
    /\ NoCalculatorUse
    /\ NoFetchUse
    /\ NoFlightUse
    /\ NoDbUse
    /\ NoBotUse
    /\ \E duration \in Durations : NewCache(duration, CacheThreads)

FetchSpec == FetchInit /\ [][FetchNext]_vars

(***************************************************************************)
(* The flight forecast (app/services/flight_forecast_weather.py): the risk *)
(* analysis of one day from the worst forecast of the day at each of the   *)
(* two locations.                                                          *)
(***************************************************************************)
\* The forecasts of one location: values on both sides of every threshold.
\* weather_desc "overcast" stands for a description with none of the words
\* looked for, "snow" for one containing "снег", "downpour" for one
\* containing "ливень" or "сильный"
WorstForecasts ==
    [wind_speed : {12, 13}, wind_gust : {15, 16}, cloudiness : {79, 80},
     temp : {-44, -45}, snow_3h : {0, 1}, rain_3h : {3, 4},
     weather_main : {"clouds", "snow", "rain"},
     weather_desc : {"overcast", "downpour"}]

Max(a, b) == IF a >= b THEN a ELSE b

\* Lines 156-157
has_snow(f) ==
    f.snow_3h > 0 \/ f.weather_main = "snow" \/ f.weather_desc = "snow"

has_heavy_rain(f) ==
    f.rain_3h > 3 \/ f.weather_desc = "downpour" \/ f.weather_main = "rain"

\* A score to which snow and heavy rain each add 2
_calculate_risk_score_snow_and_rain(f) ==
    (IF f.wind_speed > 12 THEN 3 ELSE 0)
    + (IF f.wind_gust > 15 THEN 3 ELSE 0)
    + (IF f.cloudiness >= 80 THEN 2 ELSE 0)
    + (IF has_snow(f) THEN 2 ELSE 0)
    + (IF has_heavy_rain(f) THEN 2 ELSE 0)
    + (IF f.temp <= -45 THEN 3 ELSE 0)

\* _calculate_risk_score(forecast)[0]
_calculate_risk_score(f) ==
    (IF f.wind_speed > 12 THEN 3 ELSE 0)
    + (IF f.wind_gust > 15 THEN 3 ELSE 0)
    + (IF f.cloudiness >= 80 THEN 2 ELSE 0)
    + (IF has_snow(f) THEN 2 ELSE IF has_heavy_rain(f) THEN 2 ELSE 0)
    + (IF f.temp <= -45 THEN 3 ELSE 0)

\* _calculate_risk_score(forecast)[1]: the reasons in the order lines
\* 141-177 append them
risk_reasons(f) ==
    (IF f.wind_speed > 12 THEN <<"strong wind">> ELSE <<>>)
    \o (IF f.wind_gust > 15 THEN <<"wind gusts">> ELSE <<>>)
    \o (IF f.cloudiness >= 80 THEN <<"dense clouds">> ELSE <<>>)
    \o (IF has_snow(f)
        THEN (IF f.snow_3h > 0 THEN <<"snowfall">> ELSE <<"snow">>)
        ELSE IF has_heavy_rain(f)
        THEN (IF f.rain_3h > 3 THEN <<"heavy rain, mm">> ELSE <<"heavy rain">>)
        ELSE <<>>)
    \o (IF f.temp <= -45 THEN <<"extreme cold">> ELSE <<>>)

\* The status with the second threshold one point higher
_get_risk_status_up_to_seven(score) ==
    IF score <= 3 THEN "flight possible"
    ELSE IF score <= 7 THEN "caution, chance of delay"
    ELSE "flight NOT recommended"

\* _get_risk_status(score)[0]: "✅ Вылет возможен", "⚠️ Осторожно — шанс
\* задержки", "❌ Вылет НЕ рекомендуется"
_get_risk_status(score) ==
    IF score <= 3 THEN "flight possible"
    ELSE IF score <= 6 THEN "caution, chance of delay"
    ELSE "flight NOT recommended"

\* Lines 325-350: the analysis of day i
DayAnalysis(vankor_day, igarka_day) ==
    LET vankor_score == _calculate_risk_score(vankor_day)
        igarka_score == _calculate_risk_score(igarka_day)
        max_score    == Max(vankor_score, igarka_score)
    IN  [vankor |-> vankor_day, igarka |-> igarka_day,
         risk_score |-> max_score, status |-> _get_risk_status(max_score)]

\* The two locations' forecasts for the day have arrived
FlightInit ==
    /\ NoCalculatorUse
    /\ NoCacheUse
    /\ NoFetchUse
    /\ NoDbUse
    /\ NoBotUse
    /\ forecast \in [vankor : WorstForecasts, igarka : WorstForecasts]
    /\ daily_analyses = <<>>

\* get_flight_forecast analyses the day
AnalyseDay ==
    /\ daily_analyses = <<>>
    /\ daily_analyses' = <<DayAnalysis(forecast.vankor, forecast.igarka)>>
    /\ UNCHANGED forecast
    /\ UNCHANGED <<calculatorVars, cacheVars, fetchVars, dbVars, botVars>>

FlightNext == AnalyseDay

FlightSpec == FlightInit /\ [][FlightNext]_vars

(***************************************************************************)
(* UserCRUD (app/database/db.py): get_or_create run by clients that each   *)
(* hold a session on the same database file.  What a session reads or     *)
(* writes reaches the file in one step (the query at line 100, the flush   *)
(* and commit at lines 110 and 126); between these steps another           *)
(* session's step may come.                                                *)
(***************************************************************************)
\* The calls the clients make between them
MaxUserCalls == 3

TelegramIds == {12345, 67890}

\* The values passed for username, first_name and last_name, Nothing being
\* the default of an omitted argument: a full profile, the profiles that
\* differ from it in one field, and the call with the three omitted
Profiles ==
    {[username |-> "testuser", first_name |-> "Test", last_name |-> "User"],
     [username |-> Nothing, first_name |-> "Test", last_name |-> "User"],
     [username |-> "testuser", first_name |-> "Test2", last_name |-> "User"],
     [username |-> "testuser", first_name |-> "Test", last_name |-> Nothing],
     [username |-> Nothing, first_name |-> Nothing, last_name |-> Nothing]}

\* The arguments of get_or_create
UserArgs ==
    {[telegram_id |-> id, username |-> p.username, first_name |-> p.first_name,
      last_name |-> p.last_name] : id \in TelegramIds, p \in Profiles}

\* user is None
NoUser ==
    [id |-> 0, telegram_id |-> 0, username |-> Nothing, first_name |-> Nothing,
     last_name |-> Nothing]

\* Lines 103-108: User(telegram_id=..., username=..., first_name=...,
\* last_name=...); the id is given by the database when the row is inserted
User(a) ==
    [id |-> 0, telegram_id |-> a.telegram_id, username |-> a.username,
     first_name |-> a.first_name, last_name |-> a.last_name]

\* session.query(User).filter_by(telegram_id=telegram_id).first()
FirstUser(rows, telegram_id) ==
    IF \E i \in 1..Len(rows) : rows[i].telegram_id = telegram_id
    THEN rows[CHOOSE i \in 1..Len(rows) :
                  /\ rows[i].telegram_id = telegram_id
                  /\ \A j \in 1..(i - 1) : rows[j].telegram_id # telegram_id]
    ELSE NoUser

\* A users table whose telegram_id column has no unique index
NoUniqueIndex(rows, row) == FALSE

\* telegram_id = Column(Integer, unique=True, ...): the INSERT of a row
\* whose telegram_id is in the table already fails with IntegrityError
UniqueViolation(rows, row) ==
    \E i \in 1..Len(rows) : rows[i].telegram_id = row.telegram_id

\* Only the arguments that were passed replace the stored values
updated_profile_keeping_omitted(user, a) ==
    [user EXCEPT
        !.username = IF a.username # Nothing THEN a.username ELSE @,
        !.first_name = IF a.first_name # Nothing THEN a.first_name ELSE @,
        !.last_name = IF a.last_name # Nothing THEN a.last_name ELSE @]

\* Lines 115-123: each of the three fields that differs from the argument
\* is assigned the argument
updated_profile(user, a) ==
    [user EXCEPT
        !.username = IF user.username # a.username THEN a.username ELSE @,
        !.first_name = IF user.first_name # a.first_name THEN a.first_name ELSE @,
        !.last_name = IF user.last_name # a.last_name THEN a.last_name ELSE @]

\* The UPDATE a flush emits for a loaded object: the columns whose
\* attribute was changed, in the row with the object's id
FlushUpdate(rows, loaded, user) ==
    [i \in 1..Len(rows) |->
        IF rows[i].id = user.id
        THEN [rows[i] EXCEPT
                !.username = IF user.username # loaded.username
                             THEN user.username ELSE @,
                !.first_name = IF user.first_name # loaded.first_name
                               THEN user.first_name ELSE @,
                !.last_name = IF user.last_name # loaded.last_name
                              THEN user.last_name ELSE @]
        ELSE rows[i]]

\* A client's locals at the start of get_or_create
GetOrCreateLocals(a) ==
    [op |-> "get_or_create", args |-> a, loaded |-> NoUser, user |-> NoUser,
     existed |-> FirstUser(users, a.telegram_id) # NoUser,
     created |-> FALSE, commits |-> 0, rollbacks |-> 0, ret |-> NoUser,
     raised |-> Nothing]

\* The client's session is open
HasSession(c) == sessions[c].state = "open"

\* Client c goes on to the statement at line with the locals given
DbStep(c, line, locals) ==
    /\ dpc' = [dpc EXCEPT ![c] = line]
    /\ dloc' = [dloc EXCEPT ![c] = locals]

\* A client calls UserCRUD.get_or_create(session, telegram_id, username,
\* first_name, last_name)
GetOrCreateCall ==
    \E c \in DbClients : \E a \in UserArgs :
        /\ HasSession(c)
        /\ dpc[c] = "idle"
        /\ dcalls < MaxUserCalls
        /\ dcalls' = dcalls + 1
        /\ UNCHANGED init_ok
        /\ DbStep(c, "get_or_create:100", GetOrCreateLocals(a))
        /\ UNCHANGED <<engine, SessionLocal, schema, users, salary_records,
                       weather_records, sessions>>
        /\ UNCHANGED <<calculatorVars, cacheVars, fetchVars, flightVars, botVars>>

\* Lines 100-109: the query; with no row found the new User is added to
\* the session
GetOrCreateQuery ==
    \E c \in DbClients :
        /\ dpc[c] = "get_or_create:100"
        /\ LET user == FirstUser(users, dloc[c].args.telegram_id)
           IN  IF user = NoUser
               THEN /\ DbStep(c, "get_or_create:110",
                              [dloc[c] EXCEPT !.user = User(dloc[c].args)])
                    /\ sessions' = [sessions EXCEPT
                                       ![c].pending = <<User(dloc[c].args)>>]
               ELSE /\ DbStep(c, "get_or_create:115",
                              [dloc[c] EXCEPT !.loaded = user, !.user = user])
                    /\ UNCHANGED sessions
        /\ UNCHANGED <<engine, SessionLocal, schema, users, salary_records,
                       weather_records>>
        /\ UNCHANGED <<dcalls, init_ok>>
        /\ UNCHANGED <<calculatorVars, cacheVars, fetchVars, flightVars, botVars>>

\* What may go wrong in a commit apart from a constraint: nothing, or the
\* file cannot be written (database is locked, disk I/O error)
CommitFailures == {Nothing, "OperationalError"}

\* Line 110: session.commit() flushes the INSERT; lines 129-134: the user
\* is returned, or the exception is caught
GetOrCreateInsert ==
    \E c \in DbClients : \E failure \in CommitFailures :
        /\ dpc[c] = "get_or_create:110"
        /\ IF UniqueViolation(users, dloc[c].user)
           THEN /\ DbStep(c, "get_or_create:except",
                          [dloc[c] EXCEPT !.raised = "IntegrityError"])
                /\ UNCHANGED <<users, sessions>>
           ELSE IF failure # Nothing
           THEN /\ DbStep(c, "get_or_create:except",
                          [dloc[c] EXCEPT !.raised = failure])
                /\ UNCHANGED <<users, sessions>>
           ELSE LET row == [dloc[c].user EXCEPT !.id = Len(users) + 1]
                IN  /\ users' = Append(users, row)
                    /\ sessions' = [sessions EXCEPT ![c].pending = <<>>]
                    /\ DbStep(c, "done",
                              [dloc[c] EXCEPT !.user = row, !.ret = row,
                                              !.created = TRUE, !.commits = 1])
        /\ UNCHANGED <<engine, SessionLocal, schema, salary_records,
                       weather_records>>
        /\ UNCHANGED <<dcalls, init_ok>>
        /\ UNCHANGED <<calculatorVars, cacheVars, fetchVars, flightVars, botVars>>

\* Lines 114-129: the fields are compared and assigned, the session is
\* committed if one was assigned, and the user is returned
GetOrCreateUpdate ==
    \E c \in DbClients : \E failure \in CommitFailures :
        /\ dpc[c] = "get_or_create:115"
        /\ LET user == updated_profile(dloc[c].user, dloc[c].args)
               updated == user # dloc[c].user
           IN  IF updated /\ failure # Nothing
               THEN /\ DbStep(c, "get_or_create:except",
                              [dloc[c] EXCEPT !.user = user, !.raised = failure])
                    /\ UNCHANGED <<users, sessions>>
               ELSE /\ users' = IF updated
                                 THEN FlushUpdate(users, dloc[c].loaded, user)
                                 ELSE users
                    /\ UNCHANGED sessions
                    /\ DbStep(c, "done",
                              [dloc[c] EXCEPT !.user = user, !.ret = user,
                                              !.commits = IF updated THEN 1 ELSE 0])
        /\ UNCHANGED <<engine, SessionLocal, schema, salary_records,
                       weather_records>>
        /\ UNCHANGED <<dcalls, init_ok>>
        /\ UNCHANGED <<calculatorVars, cacheVars, fetchVars, flightVars, botVars>>

\* Lines 130-137: session.rollback() drops what the session had pending,
\* and the exception is raised again
GetOrCreateRollback ==
    \E c \in DbClients :
        /\ dpc[c] = "get_or_create:except"
        /\ sessions' = [sessions EXCEPT ![c].pending = <<>>]
        /\ DbStep(c, "done", [dloc[c] EXCEPT !.rollbacks = 1])
        /\ UNCHANGED <<engine, SessionLocal, schema, users, salary_records,
                       weather_records>>
        /\ UNCHANGED <<dcalls, init_ok>>
        /\ UNCHANGED <<calculatorVars, cacheVars, fetchVars, flightVars, botVars>>

\* The caller has what the call returned or raised and may call again
DbReturn ==
    \E c \in DbClients :
        /\ dpc[c] = "done"
        /\ DbStep(c, "idle", IdleClient)
        /\ UNCHANGED <<engine, SessionLocal, schema, users, salary_records,
                       weather_records, sessions>>
        /\ UNCHANGED <<dcalls, init_ok>>
        /\ UNCHANGED <<calculatorVars, cacheVars, fetchVars, flightVars, botVars>>

UsersNext ==
    \/ GetOrCreateCall
    \/ GetOrCreateQuery
    \/ GetOrCreateInsert
    \/ GetOrCreateUpdate
    \/ GetOrCreateRollback
    \/ DbReturn

\* A session as _SessionLocal() returns it
NewSession == [state |-> "open", pending |-> <<>>, ended |-> "none"]

\* init_db has run on a new file and the clients have taken their sessions
Initialised(clients) ==
    /\ engine = "engine"
    /\ SessionLocal = "sessionmaker"
    /\ schema = [table \in Tables |-> Metadata(table)]
    /\ users = <<>>
    /\ salary_records = <<>>
    /\ weather_records = <<>>
    /\ sessions = [c \in DbClients |-> IF c \in clients THEN NewSession
                                       ELSE NoSession]
    /\ dpc = [c \in DbClients |-> "idle"]
    /\ dloc = [c \in DbClients |-> IdleClient]
    /\ dcalls = 0
    /\ init_ok = TRUE

NoOtherUse ==
    /\ NoCalculatorUse
    /\ NoCacheUse
    /\ NoFetchUse
    /\ NoFlightUse
    /\ NoBotUse

\* One session: the calls follow one another
UsersInit == NoOtherUse /\ Initialised({"c1"})

UsersSpec == UsersInit /\ [][UsersNext]_vars

\* Two sessions: their calls interleave
SessionsInit == NoOtherUse /\ Initialised(DbClients)

SessionsSpec == SessionsInit /\ [][UsersNext]_vars

(***************************************************************************)
(* init_db, get_session and db_session (app/database/db.py) as the         *)
(* application calls them, one call after another, on a database file      *)
(* that is new or was written by an earlier version of the program.  A     *)
(* step that touches the file system or the database may fail.             *)
(***************************************************************************)
MaxDbCalls == 4

\* The most objects a with-block adds to its session
MaxAdds == 1

\* The application: its handlers run one at a time
Caller == "c1"

\* SalaryRecord(telegram_id=..., net=...); created_at is the column default
\* datetime.now(timezone.utc), the id is given by the database
SalaryRecord(telegram_id, paid, created_at) ==
    [id |-> 0, telegram_id |-> telegram_id, net |-> paid, created_at |-> created_at]

\* Lines 282-286: WeatherRecord(user_id=..., city=..., weather_data=...)
WeatherRecord(user_id, city, weather_data) ==
    [id |-> 0, user_id |-> user_id, city |-> city, weather_data |-> weather_data]

\* The committed rows of the three tables
Stored ==
    [users |-> users, salary_records |-> salary_records,
     weather_records |-> weather_records]

\* A file written before the shift-method fields: salary_records has the
\* old structure and a row in it
LegacyFile ==
    /\ schema = [table \in Tables |->
                    IF table = "salary_records" THEN LegacySalaryColumns
                    ELSE Metadata(table)]
    /\ users = <<[User([telegram_id |-> 12345, username |-> "testuser",
                        first_name |-> "Test", last_name |-> "User"])
                  EXCEPT !.id = 1]>>
    /\ salary_records = <<[id |-> 1, user_id |-> 1, net |-> 139200]>>
    /\ weather_records = <<>>

\* A file with no table in it
NewFile ==
    /\ schema = NoTables
    /\ users = <<>>
    /\ salary_records = <<>>
    /\ weather_records = <<>>

\* required_columns
required_columns == SalaryColumns \ {"id", "created_at"}

\* A migration that recreates the table whatever its columns are
recreated_always(existing_columns) == TRUE

\* Lines 372-388: the table is recreated unless it has every required
\* column
needs_migration(existing_columns) == ~(required_columns \subseteq existing_columns)

\* What the objects added in a with-block may be
BlockItems ==
    {[table |-> "users",
      row |-> User([telegram_id |-> id, username |-> "testuser",
                    first_name |-> "Test", last_name |-> "User"])] :
        id \in TelegramIds}
    \cup {[table |-> "salary_records", row |-> SalaryRecord(12345, 156600, now)]}
    \cup {[table |-> "weather_records", row |-> WeatherRecord(1, "Vankor", "r1")]}

\* The tables once the INSERTs of the pending objects are flushed, each
\* row taking the next id of its table
RECURSIVE Flushed(_, _)
Flushed(tables, pending) ==
    IF pending = <<>>
    THEN tables
    ELSE LET item == Head(pending)
             rows == tables[item.table]
             row  == [item.row EXCEPT !.id = Len(rows) + 1]
         IN  Flushed([tables EXCEPT ![item.table] = Append(rows, row)],
                     Tail(pending))

\* What flushing the pending objects raises: OperationalError when the
\* table lacks a column of the object (or is not there), IntegrityError
\* when the row breaks the unique index of users.telegram_id
RECURSIVE FlushError(_, _)
FlushError(tables, pending) ==
    IF pending = <<>>
    THEN Nothing
    ELSE LET item == Head(pending)
         IN  IF ~(Metadata(item.table) \subseteq schema[item.table])
             THEN "OperationalError"
             ELSE IF item.table = "users" /\ UniqueViolation(tables.users, item.row)
             THEN "IntegrityError"
             ELSE FlushError(Flushed(tables, <<item>>), Tail(pending))

\* What session.commit() raises, given what may go wrong apart from the
\* statements themselves
CommitError(pending, failure) ==
    IF FlushError(Stored, pending) # Nothing THEN FlushError(Stored, pending)
    ELSE IF pending # <<>> THEN failure
    ELSE Nothing

\* The tables become what tables says
Store(tables) ==
    /\ users' = tables.users
    /\ salary_records' = tables.salary_records
    /\ weather_records' = tables.weather_records

\* init_db(db_path) is called
InitDbCall ==
    /\ dpc[Caller] = "idle"
    /\ dcalls < MaxDbCalls
    /\ dcalls' = dcalls + 1
    /\ DbStep(Caller, "init_db:319",
              [op |-> "init_db", repeat |-> init_ok,
               before |-> [schema |-> schema, rows |-> Stored],
               created |-> {}, migrated |-> FALSE, failed_at |-> Nothing,
               raised |-> Nothing])
    /\ UNCHANGED <<engine, SessionLocal, schema, users, salary_records,
                   weather_records, sessions, init_ok>>
    /\ UNCHANGED <<calculatorVars, cacheVars, fetchVars, flightVars, botVars>>

\* Lines 318-329: the directory is made and the engine created
InitDbEngine ==
    \E fails \in BOOLEAN :
        /\ dpc[Caller] = "init_db:319"
        /\ IF fails
           THEN /\ DbStep(Caller, "init_db:except",
                          [dloc[Caller] EXCEPT !.failed_at = "mkdir"])
                /\ UNCHANGED engine
           ELSE /\ engine' = "engine"
                /\ DbStep(Caller, "init_db:333", dloc[Caller])
        /\ UNCHANGED <<SessionLocal, schema, users, salary_records,
                       weather_records, sessions, dcalls, init_ok>>
        /\ UNCHANGED <<calculatorVars, cacheVars, fetchVars, flightVars, botVars>>

\* Lines 332-336: SELECT 1 on a connection, then
\* _SessionLocal = sessionmaker(bind=_engine)
InitDbConnect ==
    \E fails \in BOOLEAN :
        /\ dpc[Caller] = "init_db:333"
        /\ IF fails
           THEN /\ DbStep(Caller, "init_db:except",
                          [dloc[Caller] EXCEPT !.failed_at = "connect"])
                /\ UNCHANGED SessionLocal
           ELSE /\ SessionLocal' = "sessionmaker"
                /\ DbStep(Caller, "init_db:339", dloc[Caller])
        /\ UNCHANGED <<engine, schema, users, salary_records,
                       weather_records, sessions, dcalls, init_ok>>
        /\ UNCHANGED <<calculatorVars, cacheVars, fetchVars, flightVars, botVars>>

\* Line 339: Base.metadata.create_all(_engine, checkfirst=True) creates the
\* tables the file does not have
InitDbCreateAll ==
    \E fails \in BOOLEAN :
        /\ dpc[Caller] = "init_db:339"
        /\ LET missing == {table \in Tables : schema[table] = {}}
           IN  IF fails
               THEN /\ DbStep(Caller, "init_db:except",
                              [dloc[Caller] EXCEPT !.failed_at = "create_all"])
                    /\ UNCHANGED schema
               ELSE /\ schema' = [table \in Tables |->
                                    IF table \in missing THEN Metadata(table)
                                    ELSE schema[table]]
                    /\ DbStep(Caller, "init_db:342",
                              [dloc[Caller] EXCEPT !.created = missing])
        /\ UNCHANGED <<engine, SessionLocal, users, salary_records,
                       weather_records, sessions, dcalls, init_ok>>
        /\ UNCHANGED <<calculatorVars, cacheVars, fetchVars, flightVars, botVars>>

\* Line 342, _migrate_salary_records_table: salary_records_new is created
\* with the new structure, salary_records dropped and the new table renamed
\* to it, in one transaction; no row is copied
InitDbMigrate ==
    \E fails \in BOOLEAN :
        /\ dpc[Caller] = "init_db:342"
        /\ IF fails
           THEN /\ DbStep(Caller, "init_db:except",
                          [dloc[Caller] EXCEPT !.failed_at = "migration"])
                /\ UNCHANGED <<schema, salary_records>>
           ELSE IF schema["salary_records"] = {}
                   \/ ~needs_migration(schema["salary_records"])
           THEN /\ DbStep(Caller, "init_db:347", dloc[Caller])
                /\ UNCHANGED <<schema, salary_records>>
           ELSE /\ schema' = [schema EXCEPT !["salary_records"] = SalaryColumns]
                /\ salary_records' = <<>>
                /\ DbStep(Caller, "init_db:347",
                          [dloc[Caller] EXCEPT !.migrated = TRUE])
        /\ UNCHANGED <<engine, SessionLocal, users, weather_records, sessions,
                       dcalls, init_ok>>
        /\ UNCHANGED <<calculatorVars, cacheVars, fetchVars, flightVars, botVars>>

\* Lines 344-347: _check_db_integrity runs SELECT 1 in a session of its own
\* and logs what goes wrong; init_db returns
InitDbCheck ==
    /\ dpc[Caller] = "init_db:347"
    /\ init_ok' = TRUE
    /\ DbStep(Caller, "done", dloc[Caller])
    /\ UNCHANGED <<engine, SessionLocal, schema, users, salary_records,
                   weather_records, sessions, dcalls>>
    /\ UNCHANGED <<calculatorVars, cacheVars, fetchVars, flightVars, botVars>>

\* Lines 349-351: raise RuntimeError(...) from e
InitDbRaise ==
    /\ dpc[Caller] = "init_db:except"
    /\ DbStep(Caller, "done", [dloc[Caller] EXCEPT !.raised = "RuntimeError"])
    /\ UNCHANGED <<engine, SessionLocal, schema, users, salary_records,
                   weather_records, sessions, dcalls, init_ok>>
    /\ UNCHANGED <<calculatorVars, cacheVars, fetchVars, flightVars, botVars>>

\* get_session(), lines 458-460
GetSession ==
    /\ dpc[Caller] = "idle"
    /\ dcalls < MaxDbCalls
    /\ dcalls' = dcalls + 1
    /\ IF SessionLocal = Nothing
       THEN /\ DbStep(Caller, "done",
                      [op |-> "get_session", initialised |-> init_ok,
                       ret |-> Nothing, raised |-> "RuntimeError"])
            /\ UNCHANGED sessions
       ELSE /\ sessions' = [sessions EXCEPT ![Caller] = NewSession]
            /\ DbStep(Caller, "done",
                      [op |-> "get_session", initialised |-> init_ok,
                       ret |-> "session", raised |-> Nothing])
    /\ UNCHANGED <<engine, SessionLocal, schema, users, salary_records,
                   weather_records, init_ok>>
    /\ UNCHANGED <<calculatorVars, cacheVars, fetchVars, flightVars, botVars>>

\* The locals of db_session and what the with-block did
DbSessionLocals ==
    [op |-> "db_session", initialised |-> init_ok, ret |-> Nothing,
     block |-> "none", added |-> 0, thrown |-> Nothing, exception |-> Nothing,
     left |-> Stored,
     unsaved |-> <<>>, commits |-> 0, rollbacks |-> 0, raised |-> Nothing]

\* with db_session() as session, lines 481-486: the session is made and
\* the block entered
DbSessionEnter ==
    /\ dpc[Caller] = "idle"
    /\ dcalls < MaxDbCalls
    /\ dcalls' = dcalls + 1
    /\ IF SessionLocal = Nothing
       THEN /\ DbStep(Caller, "done",
                      [DbSessionLocals EXCEPT !.raised = "RuntimeError"])
            /\ UNCHANGED sessions
       ELSE /\ sessions' = [sessions EXCEPT ![Caller] = NewSession]
            /\ DbStep(Caller, "db_session:block",
                      [DbSessionLocals EXCEPT !.ret = "session",
                                              !.block = "running"])
    /\ UNCHANGED <<engine, SessionLocal, schema, users, salary_records,
                   weather_records, init_ok>>
    /\ UNCHANGED <<calculatorVars, cacheVars, fetchVars, flightVars, botVars>>

\* The block adds an object to the session: session.add(...)
BlockAdds ==
    \E item \in BlockItems :
        /\ dpc[Caller] = "db_session:block"
        /\ dloc[Caller].added < MaxAdds
        /\ sessions' = [sessions EXCEPT ![Caller].pending = Append(@, item)]
        /\ DbStep(Caller, dpc[Caller], [dloc[Caller] EXCEPT !.added = @ + 1])
        /\ UNCHANGED <<engine, SessionLocal, schema, users, salary_records,
                       weather_records, dcalls, init_ok>>
        /\ UNCHANGED <<calculatorVars, cacheVars, fetchVars, flightVars, botVars>>

\* The block calls a CRUD method that commits (lines 110, 229, 288); when
\* the commit fails the method rolls back and raises (lines 130-137,
\* 232-235, 291-294), which ends the block
BlockCommits ==
    \E failure \in CommitFailures :
        /\ dpc[Caller] = "db_session:block"
        /\ sessions[Caller].pending # <<>>
        /\ IF CommitError(sessions[Caller].pending, failure) # Nothing
           THEN /\ sessions' = [sessions EXCEPT ![Caller].pending = <<>>,
                                                ![Caller].ended = "rolled back"]
                /\ DbStep(Caller, "db_session:489",
                          [dloc[Caller] EXCEPT
                              !.block = "Exception",
                              !.thrown =
                                  CommitError(sessions[Caller].pending, failure),
                              !.exception =
                                  CommitError(sessions[Caller].pending, failure),
                              !.left = Stored])
                /\ UNCHANGED <<users, salary_records, weather_records>>
           ELSE /\ Store(Flushed(Stored, sessions[Caller].pending))
                /\ sessions' = [sessions EXCEPT ![Caller].pending = <<>>,
                                                ![Caller].ended = "committed"]
                /\ UNCHANGED <<dpc, dloc>>
        /\ UNCHANGED <<engine, SessionLocal, schema, dcalls, init_ok>>
        /\ UNCHANGED <<calculatorVars, cacheVars, fetchVars, flightVars, botVars>>

\* How a with-block may end: it runs to its end, a statement raises an
\* Exception, or a BaseException that is no Exception (KeyboardInterrupt)
BlockEndings == {"ok", "Exception", "BaseException"}

\* A block that ends in any way goes on to session.commit()
next_line_commit_always(block) == "db_session:487"

\* Lines 485-492: after the block comes session.commit(), the except
\* clause, or the finally clause alone
next_line(block) ==
    CASE block = "ok"            -> "db_session:487"
      [] block = "Exception"     -> "db_session:489"
      [] block = "BaseException" -> "db_session:492"

\* What the block raised
BlockException(block) ==
    CASE block = "ok"            -> Nothing
      [] block = "Exception"     -> "ValueError"
      [] block = "BaseException" -> "KeyboardInterrupt"

\* The block is left
BlockEnds ==
    \E block \in BlockEndings :
        /\ dpc[Caller] = "db_session:block"
        /\ DbStep(Caller, next_line(block),
                  [dloc[Caller] EXCEPT
                      !.block = block,
                      !.thrown = BlockException(block),
                      !.exception = BlockException(block),
                      !.left = Stored,
                      !.unsaved = sessions[Caller].pending])
        /\ UNCHANGED <<engine, SessionLocal, schema, users, salary_records,
                       weather_records, sessions, dcalls, init_ok>>
        /\ UNCHANGED <<calculatorVars, cacheVars, fetchVars, flightVars, botVars>>

\* Line 487: session.commit()
DbSessionCommit ==
    \E failure \in CommitFailures :
        /\ dpc[Caller] = "db_session:487"
        /\ LET pending == sessions[Caller].pending
               error   == CommitError(pending, failure)
           IN  IF error # Nothing
               THEN /\ DbStep(Caller, "db_session:489",
                              [dloc[Caller] EXCEPT
                                  !.commits = @ + 1,
                                  !.exception = error])
                    /\ UNCHANGED <<users, salary_records, weather_records,
                                   sessions>>
               ELSE /\ Store(Flushed(Stored, pending))
                    /\ sessions' = [sessions EXCEPT ![Caller].pending = <<>>,
                                                    ![Caller].ended = "committed"]
                    /\ DbStep(Caller, "db_session:492",
                              [dloc[Caller] EXCEPT !.commits = @ + 1])
        /\ UNCHANGED <<engine, SessionLocal, schema, dcalls, init_ok>>
        /\ UNCHANGED <<calculatorVars, cacheVars, fetchVars, flightVars, botVars>>

\* Lines 488-490: except Exception: session.rollback(); raise
DbSessionRollback ==
    /\ dpc[Caller] = "db_session:489"
    /\ sessions' = [sessions EXCEPT ![Caller].pending = <<>>,
                                    ![Caller].ended = "rolled back"]
    /\ DbStep(Caller, "db_session:492", [dloc[Caller] EXCEPT !.rollbacks = @ + 1])
    /\ UNCHANGED <<engine, SessionLocal, schema, users, salary_records,
                   weather_records, dcalls, init_ok>>
    /\ UNCHANGED <<calculatorVars, cacheVars, fetchVars, flightVars, botVars>>

\* Lines 491-492: finally: session.close() releases the session; a
\* transaction still open is rolled back; the exception under way, if
\* any, goes on to the caller
DbSessionClose ==
    /\ dpc[Caller] = "db_session:492"
    /\ sessions' = [sessions EXCEPT
                       ![Caller].state = "closed",
                       ![Caller].pending = <<>>,
                       ![Caller].ended = IF sessions[Caller].pending # <<>>
                                         THEN "rolled back" ELSE @]
    /\ DbStep(Caller, "done", [dloc[Caller] EXCEPT !.raised = dloc[Caller].exception])
    /\ UNCHANGED <<engine, SessionLocal, schema, users, salary_records,
                   weather_records, dcalls, init_ok>>
    /\ UNCHANGED <<calculatorVars, cacheVars, fetchVars, flightVars, botVars>>

DatabaseNext ==
    \/ InitDbCall
    \/ InitDbEngine
    \/ InitDbConnect
    \/ InitDbCreateAll
    \/ InitDbMigrate
    \/ InitDbCheck
    \/ InitDbRaise
    \/ GetSession
    \/ DbSessionEnter
    \/ BlockAdds
    \/ BlockCommits
    \/ BlockEnds
    \/ DbSessionCommit
    \/ DbSessionRollback
    \/ DbSessionClose
    \/ DbReturn

\* The module is imported: _engine = None, _SessionLocal = None
DatabaseInit ==
    /\ NoOtherUse
    /\ engine = Nothing
    /\ SessionLocal = Nothing
    /\ NewFile \/ LegacyFile
    /\ sessions = [c \in DbClients |-> NoSession]
    /\ dpc = [c \in DbClients |-> "idle"]
    /\ dloc = [c \in DbClients |-> IdleClient]
    /\ dcalls = 0
    /\ init_ok = FALSE

DatabaseSpec == DatabaseInit /\ [][DatabaseNext]_vars

(***************************************************************************)
(* SalaryCRUD (app/database/db.py): create and get_user_records on one     *)
(* session, with the clock that stamps created_at.                         *)
(***************************************************************************)
\* The net pay of the records created
Nets == {139200, 156600}

\* The limit argument of get_user_records
Limits == {1, 5}

\* SalaryCRUD.create, lines 211-235: the record is added and committed,
\* created_at taking the clock's reading; a commit that fails is rolled
\* back and raised
SalaryCreate ==
    \E telegram_id \in TelegramIds : \E paid \in Nets :
    \E failure \in CommitFailures :
        /\ HasSession(Caller)
        /\ dpc[Caller] = "idle"
        /\ dcalls < MaxDbCalls
        /\ dcalls' = dcalls + 1
        /\ IF failure # Nothing
           THEN /\ DbStep(Caller, "done",
                          [op |-> "create", ret |-> Nothing, raised |-> failure])
                /\ sessions' = [sessions EXCEPT ![Caller].ended = "rolled back"]
                /\ UNCHANGED salary_records
           ELSE LET record == [SalaryRecord(telegram_id, paid, now)
                               EXCEPT !.id = Len(salary_records) + 1]
                IN  /\ salary_records' = Append(salary_records, record)
                    /\ sessions' = [sessions EXCEPT ![Caller].ended = "committed"]
                    /\ DbStep(Caller, "done",
                              [op |-> "create", ret |-> record, raised |-> Nothing])
        /\ UNCHANGED <<engine, SessionLocal, schema, users, weather_records,
                       init_ok>>
        /\ UNCHANGED <<calculatorVars, cacheVars, fetchVars, flightVars, botVars>>

\* filter_by(telegram_id=telegram_id)
filter_by(rows, telegram_id) ==
    SelectSeq(rows, LAMBDA r : r.telegram_id = telegram_id)

\* order_by(SalaryRecord.created_at.desc()): the orders in which the
\* database may return the records; records with equal created_at come in
\* an order the query does not fix
order_by_created_at_desc(records) ==
    {[i \in 1..Len(records) |-> records[s[i]]] :
        s \in {p \in [1..Len(records) -> 1..Len(records)] :
                  /\ \A i, j \in 1..Len(records) : i # j => p[i] # p[j]
                  /\ \A i, j \in 1..Len(records) :
                        i < j => records[p[i]].created_at >= records[p[j]].created_at}}

\* limit(limit).all()
limited(records, limit) ==
    IF Len(records) <= limit THEN records ELSE SubSeq(records, 1, limit)

\* SalaryCRUD.get_user_records(session, telegram_id, limit), lines 253-254
GetUserRecords ==
    \E telegram_id \in TelegramIds : \E limit \in Limits :
    \E records \in order_by_created_at_desc(filter_by(salary_records, telegram_id)) :
        /\ HasSession(Caller)
        /\ dpc[Caller] = "idle"
        /\ dcalls < MaxDbCalls
        /\ dcalls' = dcalls + 1
        /\ DbStep(Caller, "done",
                  [op |-> "get_user_records", telegram_id |-> telegram_id,
                   limit |-> limit, ret |-> limited(records, limit),
                   raised |-> Nothing])
        /\ UNCHANGED <<engine, SessionLocal, schema, users, salary_records,
                       weather_records, sessions, init_ok>>
        /\ UNCHANGED <<calculatorVars, cacheVars, fetchVars, flightVars, botVars>>

RecordsNext ==
    \/ SalaryCreate
    \/ GetUserRecords
    \/ DbReturn
    \/ Tick

\* init_db has run and the caller holds a session from get_session()
RecordsInit == NoOtherUse /\ Initialised({Caller})

RecordsSpec == RecordsInit /\ [][RecordsNext]_vars

(***************************************************************************)
(* error_handler (app/bot/telegram/handlers.py), one step per statement    *)
(* that awaits: the application calls it with the update being processed   *)
(* and the exception a handler raised.  A type name is the sequence of the *)
(* words it is made of, so that `part in name` is a search for a run of    *)
(* words.                                                                  *)
(***************************************************************************)
MaxErrors == 2

\* The exceptions handlers raise: the class's name and module, and whether
\* the class derives from telegram.error.NetworkError
Errors ==
    {[name |-> <<"Network", "Error">>, module |-> <<"telegram", "error">>, network |-> TRUE],
     [name |-> <<"Timed", "Out">>, module |-> <<"telegram", "error">>, network |-> TRUE],
     [name |-> <<"Connect", "Error">>, module |-> <<"httpcore">>, network |-> FALSE],
     [name |-> <<"Read", "Timeout">>, module |-> <<"httpcore">>, network |-> FALSE],
     [name |-> <<"Proxy", "Connect", "Timeout">>, module |-> <<"socks">>, network |-> FALSE],
     [name |-> <<"Pool", "Timeout">>, module |-> <<"httpx">>, network |-> FALSE],
     [name |-> <<"Forbidden">>, module |-> <<"telegram", "error">>, network |-> FALSE],
     [name |-> <<"Key", "Error">>, module |-> <<"builtins">>, network |-> FALSE]}

\* What the application passes as update: an Update with a message, an
\* Update without one, or no Update at all
Updates == {"message", "no_message", "not_update"}

\* What awaiting reply_text does: the message is sent, or an exception
\* derived from Exception is raised
ReplyResults == {"sent", "telegram.error.NetworkError", "telegram.error.Forbidden"}

\* `part in text`: the words of part occur in text, in a row
Contains(text, part) ==
    \E i \in 0..(Len(text) - Len(part)) :
        \A j \in 1..Len(part) : text[i + j] = part[j]

\* Lines 1207-1218
is_network_error(error) ==
    \/ error.network
    \/ Contains(error.name, <<"Connect", "Error">>)
    \/ Contains(error.name, <<"Read", "Timeout">>)
    \/ Contains(error.name, <<"Connect", "Timeout">>)
    \/ Contains(error.module, <<"httpx">>)

\* Lines 1224, 1244: isinstance(update, Update) and update.effective_message
has_effective_message(update) == update = "message"

\* for attempt in range(3): whether there is an iteration for attempt
in_range_3(attempt) == attempt < 3

\* A test that lets every failed attempt sleep
attempt_lt_3(attempt) == attempt < 3

\* Line 1234: if attempt < 2
attempt_lt_2(attempt) == attempt < 2

\* The application awaits error_handler(update, context) with
\* context.error = error: lines 1206-1224, or 1206-1244 for other errors
ErrorHandlerCall ==
    /\ epc \in {"idle", "returned"}
    /\ ecalls < MaxErrors
    /\ \E error \in Errors, update \in Updates :
          /\ eloc' = [op |-> "error_handler", error |-> error, update |-> update,
                      is_network_error |-> is_network_error(error),
                      attempt |-> 0, replies |-> <<>>, sleeps |-> <<>>,
                      log |-> <<IF is_network_error(error) THEN "warning" ELSE "error">>]
          /\ epc' = IF ~has_effective_message(update) THEN "return"
                    ELSE IF is_network_error(error) THEN "notice" ELSE "reply"
    /\ ecalls' = ecalls + 1
    /\ UNCHANGED <<calculatorVars, cacheVars, fetchVars, flightVars, dbVars, dialogueVars>>

\* Lines 1227-1236: one attempt to send the notice.  A success breaks out
\* of the loop; a failure goes to sleep if attempt < 2 and logs an error
\* otherwise, and the loop goes on to the next attempt, if range(3) has one
ErrorHandlerNotice ==
    /\ epc = "notice"
    /\ \E result \in ReplyResults :
          /\ eloc' = [eloc EXCEPT
                        !.replies = Append(@, result),
                        !.log = IF result # "sent" /\ ~attempt_lt_2(eloc.attempt)
                                THEN Append(@, "error") ELSE @,
                        !.attempt = IF /\ result # "sent"
                                       /\ ~attempt_lt_2(eloc.attempt)
                                       /\ in_range_3(@ + 1)
                                    THEN @ + 1 ELSE @]
          /\ epc' = IF result = "sent" THEN "return"
                    ELSE IF attempt_lt_2(eloc.attempt) THEN "sleep"
                    ELSE IF in_range_3(eloc.attempt + 1) THEN "notice" ELSE "return"
    /\ UNCHANGED ecalls
    /\ UNCHANGED <<calculatorVars, cacheVars, fetchVars, flightVars, dbVars, dialogueVars>>

\* Line 1235: await asyncio.sleep(1), then the next attempt, if range(3)
\* has one
ErrorHandlerSleep ==
    /\ epc = "sleep"
    /\ eloc' = [eloc EXCEPT !.sleeps = Append(@, eloc.attempt),
                            !.attempt = IF in_range_3(@ + 1) THEN @ + 1 ELSE @]
    /\ epc' = IF in_range_3(eloc.attempt + 1) THEN "notice" ELSE "return"
    /\ UNCHANGED ecalls
    /\ UNCHANGED <<calculatorVars, cacheVars, fetchVars, flightVars, dbVars, dialogueVars>>

\* Lines 1245-1252: the reply about another error, sent once; an exception
\* is passed over
ErrorHandlerReply ==
    /\ epc = "reply"
    /\ \E result \in ReplyResults :
          eloc' = [eloc EXCEPT !.replies = Append(@, result)]
    /\ epc' = "return"
    /\ UNCHANGED ecalls
    /\ UNCHANGED <<calculatorVars, cacheVars, fetchVars, flightVars, dbVars, dialogueVars>>

\* Line 1237, or the end of the function
ErrorHandlerReturn ==
    /\ epc = "return"
    /\ epc' = "returned"
    /\ UNCHANGED <<eloc, ecalls>>
    /\ UNCHANGED <<calculatorVars, cacheVars, fetchVars, flightVars, dbVars, dialogueVars>>

ErrorNext ==
    \/ ErrorHandlerCall
    \/ ErrorHandlerNotice
    \/ ErrorHandlerSleep
    \/ ErrorHandlerReply
    \/ ErrorHandlerReturn

ErrorInit ==
    /\ NoCalculatorUse
    /\ NoCacheUse
    /\ NoFetchUse
    /\ NoFlightUse
    /\ NoDbUse
    /\ NoErrorUse
    /\ NoDialogueUse

\* The event loop resumes the coroutine when what it awaits is over: a
\* sleep ends, a request is answered or times out
ErrorSpec ==
    /\ ErrorInit
    /\ [][ErrorNext]_vars
    /\ WF_vars(ErrorHandlerNotice)
    /\ WF_vars(ErrorHandlerSleep)
    /\ WF_vars(ErrorHandlerReply)
    /\ WF_vars(ErrorHandlerReturn)

(***************************************************************************)
(* The two dialogues (app/bot/telegram/handlers.py) of one user in one     *)
(* chat.  The application takes the updates one at a time and gives each   *)
(* to the first handler of setup_handlers that accepts it; a               *)
(* ConversationHandler accepts, without a conversation, what its entry     *)
(* points accept and, in a state, what the handlers of the state accept    *)
(* and else what the fallbacks accept; the state a handler returns is      *)
(* stored, and a handler that raises leaves the state as it was.  A text   *)
(* is the sequence of its characters.                                      *)
(***************************************************************************)
MaxRecords == 2

\* update.effective_user.id of the user
UserId == CHOOSE telegram_id \in TelegramIds : TRUE

\* Decimal("NaN"), and the InvalidOperation Decimal(text) raises for a text
\* that is not a number
NaN == [kind |-> "nan", s |-> 1, c |-> <<>>, e |-> 0]
ConversionSyntax == [kind |-> "syntax", s |-> 1, c |-> <<>>, e |-> 0]

DigitChars == <<"0", "1", "2", "3", "4", "5", "6", "7", "8", "9">>

IsDigit(ch) == \E d \in 1..10 : DigitChars[d] = ch

DigitValue(ch) == (CHOOSE d \in 1..10 : DigitChars[d] = ch) - 1

\* str.replace(old, new) for one-character strings
replace(text, old, new) == [i \in 1..Len(text) |-> IF text[i] = old THEN new ELSE text[i]]

\* str.strip(): without the spaces at both ends
strip(text) ==
    IF \A i \in 1..Len(text) : text[i] = " " THEN <<>>
    ELSE SubSeq(text,
                CHOOSE i \in 1..Len(text) :
                    text[i] # " " /\ \A j \in 1..(i - 1) : text[j] = " ",
                CHOOSE i \in 1..Len(text) :
                    text[i] # " " /\ \A j \in (i + 1)..Len(text) : text[j] = " ")

\* str.lower() over the letters the texts are written with
lower(text) ==
    [i \in 1..Len(text) |->
        CASE text[i] = "S" -> "s"
          [] text[i] = "N" -> "n"
          [] OTHER -> text[i]]

\* The number the digits of text written in base ten stand for, text[i]
\* other than a digit being passed over
RECURSIVE DigitsValue(_, _)
DigitsValue(text, n) ==
    IF text = <<>> THEN n
    ELSE DigitsValue(Tail(text),
                     IF IsDigit(Head(text)) THEN 10 * n + DigitValue(Head(text)) ELSE n)

\* Decimal(text): spaces around the number are allowed, then a sign, digits
\* with at most one point among them, or NaN in any case
Decimal(text) ==
    LET t      == strip(text)
        body   == IF t # <<>> /\ Head(t) \in {"-", "+"} THEN Tail(t) ELSE t
        points == {i \in 1..Len(body) : body[i] = "."}
        digits == {i \in 1..Len(body) : IsDigit(body[i])}
        point  == IF points = {} THEN Len(body) + 1 ELSE CHOOSE i \in points : TRUE
    IN  IF lower(body) = <<"n", "a", "n">> THEN NaN
        ELSE IF \/ digits = {}
                \/ Cardinality(points) > 1
                \/ digits \cup points # 1..Len(body)
        THEN ConversionSyntax
        ELSE D((IF t # <<>> /\ Head(t) = "-" THEN -1 ELSE 1) * DigitsValue(body, 0),
               IF points = {} THEN 0 ELSE point - Len(body))

\* Comparing with a NaN signals InvalidOperation, as converting a text that
\* is not a number does
InvalidOperation(value) == value.kind \in {"nan", "syntax"}

\* The texts a user sends
T_abc  == <<"a", "b", "c">>
T_skip == <<"S", "k", "i", "p">>
T_nan  == <<"N", "a", "N">>
T_neg  == <<"-", "1">>
T_0    == <<"0">>
T_1    == <<"1">>
T_12   == <<"1", "2">>
T_12c5 == <<"1", "2", ",", "5">>
T_s12  == <<" ", "1", "2", " ">>
T_13   == <<"1", "3">>
T_31   == <<"3", "1">>
T_32   == <<"3", "2">>
T_100  == <<"1", "0", "0">>
T_101  == <<"1", "0", "1">>
T_365  == <<"3", "6", "5">>
T_366  == <<"3", "6", "6">>
T_400  == <<"4", "0", "0">>

Texts ==
    {T_abc, T_skip, T_nan, T_neg, T_0, T_1, T_12, T_12c5, T_s12, T_13, T_31, T_32,
     T_100, T_101, T_365, T_366, T_400}

\* The states of the salary dialogue, in the order of range(10)
SalaryStates ==
    <<"HOURLY_RATE", "DAYS_WORKED", "NIGHT_HOURS", "IDLE_DAYS", "TRAVEL_DAYS",
      "HOLIDAY_DAYS", "ADDITIONAL_PAYMENTS", "REGIONAL_ALLOWANCE",
      "NORTHERN_ALLOWANCE", "CONFIRM">>

\* The key each state's handler stores the value under
SalaryKeys ==
    <<"hourly_rate", "days_worked", "night_hours", "idle_days", "travel_days",
      "holiday_days", "additional_payments", "regional_allowance_rate",
      "northern_allowance_rate">>

\* The states of the annual bonus dialogue, in the order of range(10, 31)
AnnualStates ==
    <<"ANNUAL_HOURLY_RATE", "ANNUAL_MONTHS", "ANNUAL_BONUS_RATE",
      "ANNUAL_TARGET_BONUS_RATE", "ANNUAL_KPI", "ANNUAL_CORRECTION_COEFFICIENT",
      "ANNUAL_MONTH_1", "ANNUAL_MONTH_2", "ANNUAL_MONTH_3", "ANNUAL_MONTH_4",
      "ANNUAL_MONTH_5", "ANNUAL_MONTH_6", "ANNUAL_MONTH_7", "ANNUAL_MONTH_8",
      "ANNUAL_MONTH_9", "ANNUAL_MONTH_10", "ANNUAL_MONTH_11", "ANNUAL_MONTH_12",
      "ANNUAL_REGIONAL", "ANNUAL_NORTHERN", "ANNUAL_CONFIRM">>

\* The elements of a sequence
Range(seq) == {seq[i] : i \in 1..Len(seq)}

\* The position of a state in its dialogue, 0 for what is no state of it
StateIndex(states, state) ==
    IF \E i \in 1..Len(states) : states[i] = state
    THEN CHOOSE i \in 1..Len(states) : states[i] = state
    ELSE 0

\* The month a state asks the days of, 0 for the other states
MonthOf(state) ==
    IF StateIndex(AnnualStates, state) \in 7..18 THEN StateIndex(AnnualStates, state) - 6
    ELSE 0

\* The key the handler of an annual state stores the value under; the days
\* of the months go into the dict under annual_monthly_days
AnnualKey(state) ==
    CASE state = "ANNUAL_HOURLY_RATE"            -> "annual_hourly_rate"
      [] state = "ANNUAL_MONTHS"                 -> "annual_months"
      [] state = "ANNUAL_BONUS_RATE"             -> "annual_bonus_rate"
      [] state = "ANNUAL_TARGET_BONUS_RATE"      -> "annual_target_bonus_rate"
      [] state = "ANNUAL_KPI"                    -> "annual_kpi"
      [] state = "ANNUAL_CORRECTION_COEFFICIENT" -> "annual_correction_coefficient"
      [] state = "ANNUAL_REGIONAL"               -> "annual_regional"
      [] state = "ANNUAL_NORTHERN"               -> "annual_northern"
      [] OTHER                                   -> "annual_monthly_days"

\* The handlers of the states that take a text, by the position of the state
SalaryHandlers ==
    <<"get_hourly_rate", "get_days_worked", "get_night_hours", "get_idle_days",
      "get_travel_days", "get_holiday_days", "get_additional_payments",
      "get_regional_allowance", "get_northern_allowance">>

AnnualHandlers ==
    <<"get_annual_hourly_rate", "get_annual_months", "get_annual_bonus_rate",
      "get_annual_target_bonus_rate", "get_annual_kpi",
      "get_annual_correction_coefficient",
      "get_annual_month_1", "get_annual_month_2", "get_annual_month_3",
      "get_annual_month_4", "get_annual_month_5", "get_annual_month_6",
      "get_annual_month_7", "get_annual_month_8", "get_annual_month_9",
      "get_annual_month_10", "get_annual_month_11", "get_annual_month_12",
      "get_annual_regional", "get_annual_northern">>

\* A test that turns away negative values only
out_of_range_if_negative(state, value) == DecLt(value, Zero)

\* The test after which a handler asks again: `if value <= 0`,
\* `if value < 0 or value > 365`, `if value < 0`, ...
out_of_range(state, value) ==
    CASE state \in {"HOURLY_RATE", "ANNUAL_HOURLY_RATE"} -> DecLe(value, Zero)
      [] state = "DAYS_WORKED" -> DecLt(value, Zero) \/ DecGt(value, D(365, 0))
      [] state = "ANNUAL_MONTHS" -> DecLt(value, D(1, 0)) \/ DecGt(value, D(12, 0))
      [] state \in {"REGIONAL_ALLOWANCE", "NORTHERN_ALLOWANCE", "ANNUAL_BONUS_RATE",
                    "ANNUAL_TARGET_BONUS_RATE", "ANNUAL_REGIONAL", "ANNUAL_NORTHERN"} ->
            DecLt(value, Zero) \/ DecGt(value, Hundred)
      [] MonthOf(state) > 0 -> DecLt(value, Zero) \/ DecGt(value, D(31, 0))
      [] OTHER -> DecLt(value, Zero)

\* get_hourly_rate and get_days_worked send their replies inside
\* try ... except (TimedOut, NetworkError)
catches_network_errors(state) == state \in {"HOURLY_RATE", "DAYS_WORKED"}

\* The handlers that take 'skip' for the default: the text, stripped and in
\* lower case, is looked up in the list of words
takes_skip(state) ==
    state \in {"ANNUAL_BONUS_RATE", "ANNUAL_KPI", "ANNUAL_CORRECTION_COEFFICIENT"}

SkipWords == {<<"s", "k", "i", "p">>, <<>>}

\* The keys the summary reads with user_data[key]
SummaryKeys(state) ==
    CASE state = "NORTHERN_ALLOWANCE" -> {"hourly_rate", "days_worked"}
      [] state = "ANNUAL_NORTHERN"    -> {"annual_hourly_rate", "annual_months"}
      [] OTHER                        -> {}

\* The state after state in the sequence states
NextState(states, state) == states[StateIndex(states, state) + 1]

\* dict: d[key] = value
SetItem(d, key, value) == (key :> value) @@ d

\* The handlers that convert update.message.text as it is; the others
\* strip it first
takes_text_as_it_is(state) ==
    state \in {"HOURLY_RATE", "DAYS_WORKED", "ANNUAL_HOURLY_RATE", "ANNUAL_MONTHS"}

\* The text a handler converts
text_of(state, text) ==
    IF takes_text_as_it_is(state) THEN text
    ELSE IF takes_skip(state) THEN lower(strip(text))
    ELSE strip(text)

\* Decimal(text.replace(",", ".")) of the texts the handlers convert
Converted ==
    [text \in Texts \cup {strip(t) : t \in Texts} \cup {lower(strip(t)) : t \in Texts} |->
        Decimal(replace(text, ",", "."))]

value_of(state, text) == Converted[text_of(state, text)]

\* What a handler has done when it is over: the conversation state it
\* returned (the one it was called in if it raised), user_data as it left
\* it, the exception it raised, and how many messages it failed to send
Handled(state, ud, exc, failures) ==
    [state |-> state, user_data |-> ud, exc |-> exc, failures |-> failures]

\* One send of a handler whose replies are not guarded: the handler goes on
\* to return state `then` if the message is sent and raises if it is not
Reply(sent, state, then, ud) ==
    IF sent THEN Handled(then, ud, "", 0)
    ELSE IF catches_network_errors(state) THEN Handled(then, ud, "", 1)
    ELSE Handled(state, ud, "NetworkError", 1)

\* user_data after the handler of state has stored value
Stores(state, value, ud) ==
    CASE MonthOf(state) > 0 ->
            SetItem(ud, "annual_monthly_days",
                    SetItem(ud["annual_monthly_days"], MonthOf(state), value))
      [] state = "ANNUAL_CORRECTION_COEFFICIENT" ->
            IF "annual_monthly_days" \in DOMAIN SetItem(ud, AnnualKey(state), value)
            THEN SetItem(ud, AnnualKey(state), value)
            ELSE SetItem(SetItem(ud, AnnualKey(state), value), "annual_monthly_days", <<>>)
      [] state \in Range(AnnualStates) -> SetItem(ud, AnnualKey(state), value)
      [] OTHER -> SetItem(ud, SalaryKeys[StateIndex(SalaryStates, state)], value)

\* The handler of a state that takes a text, get_hourly_rate ..
\* get_northern_allowance and get_annual_hourly_rate .. get_annual_northern:
\* the text is converted and tested, the value stored, the summary built
\* by the last handler of a dialogue, and one message sent
TextHandler(states, state, text, sent, ud) ==
    LET skipped == takes_skip(state) /\ lower(strip(text)) \in SkipWords
        value   == IF skipped THEN None ELSE value_of(state, text)
    IN  IF ~skipped /\ (InvalidOperation(value) \/ out_of_range(state, value))
        THEN Reply(sent, state, state, ud)
        ELSE IF MonthOf(state) > 0 /\ "annual_monthly_days" \notin DOMAIN ud
        THEN Handled(state, ud, "KeyError", 0)
        ELSE IF ~(SummaryKeys(state) \subseteq DOMAIN Stores(state, value, ud))
        THEN Handled(state, Stores(state, value, ud), "KeyError", 0)
        ELSE Reply(sent, state, NextState(states, state), Stores(state, value, ud))

\* The texts a user answers the question of a state with: one the handler
\* takes and one it turns away
Taken(state) ==
    CASE state = "HOURLY_RATE"              -> T_12c5
      [] state = "NIGHT_HOURS"              -> T_s12
      [] state = "IDLE_DAYS"                -> T_0
      [] state = "ADDITIONAL_PAYMENTS"      -> T_400
      [] state = "REGIONAL_ALLOWANCE"       -> T_100
      [] state = "ANNUAL_HOURLY_RATE"       -> T_400
      [] state = "ANNUAL_BONUS_RATE"        -> T_skip
      [] state = "ANNUAL_KPI"               -> T_12c5
      [] state = "ANNUAL_CORRECTION_COEFFICIENT" -> T_skip
      [] state = "ANNUAL_REGIONAL"          -> T_100
      [] state = "ANNUAL_NORTHERN"          -> T_0
      [] OTHER                              -> T_12

TurnedAway(state) ==
    CASE state \in {"HOURLY_RATE", "ANNUAL_HOURLY_RATE"} -> T_0
      [] state = "DAYS_WORKED"              -> T_366
      [] state = "NIGHT_HOURS"              -> T_nan
      [] state \in {"ADDITIONAL_PAYMENTS", "ANNUAL_TARGET_BONUS_RATE"} -> T_skip
      [] state \in {"REGIONAL_ALLOWANCE", "ANNUAL_BONUS_RATE", "ANNUAL_REGIONAL"} -> T_101
      [] state = "ANNUAL_MONTHS"            -> T_13
      [] state \in {"TRAVEL_DAYS", "HOLIDAY_DAYS", "ANNUAL_NORTHERN"} -> T_abc
      [] MonthOf(state) > 0                 -> T_32
      [] OTHER                              -> T_neg

Asked(state) == {Taken(state), TurnedAway(state)}

\* user_data after the texts of Taken were sent in the states from the
\* i-th on, with nothing else happening in between
RECURSIVE Entered(_, _, _)
Entered(states, i, ud) ==
    IF i >= Len(states) THEN ud
    ELSE Entered(states, i + 1,
                 TextHandler(states, states[i], Taken(states[i]), TRUE, ud).user_data)


\* dict.get(key): None for a key that is not there
Get(d, key) == IF key \in DOMAIN d THEN d[key] ELSE None

\* float(x), the double nearest to x
float(x) == [nearest_to |-> x]

\* Lines 554-564: the arguments confirm_salary passes to calculate_salary
salary_arguments(ud) == [k \in SalaryParams |-> Get(ud, k)]

\* Lines 1021-1036: the arguments confirm_annual_bonus passes to
\* calculate_annual_bonus; a month without an entry counts 0 days
annual_arguments(ud) ==
    [hourly_rate              |-> ud["annual_hourly_rate"],
     months_in_company        |-> ud["annual_months"],
     monthly_days             |->
        [m \in 1..12 |->
            [k |-> m,
             d |-> IF "annual_monthly_days" \in DOMAIN ud
                      /\ m \in DOMAIN ud["annual_monthly_days"]
                   THEN ud["annual_monthly_days"][m] ELSE Zero]],
     monthly_bonus_rate       |-> Get(ud, "annual_bonus_rate"),
     target_annual_bonus_rate |-> Get(ud, "annual_target_bonus_rate"),
     kpi_coefficient          |-> Get(ud, "annual_kpi"),
     correction_coefficient   |-> Get(ud, "annual_correction_coefficient"),
     regional_allowance_rate  |-> Get(ud, "annual_regional"),
     northern_allowance_rate  |-> Get(ud, "annual_northern")]

\* What the calculators return for the values of a run in which nothing
\* else happened.  The calculators are functions of their arguments, so the
\* results for these arguments are computed once
EnteredSalaryArguments == salary_arguments(Entered(SalaryStates, 1, <<>>))

EnteredSalaryResult == calculate_salary(EnteredSalaryArguments)

EnteredAnnualArguments == annual_arguments(Entered(AnnualStates, 1, <<>>))

EnteredAnnualResult == calculate_annual_bonus(EnteredAnnualArguments)

\* What the try block of a confirm handler gets from the calculator: what
\* the call returned or raised, or the KeyError of the lookup of a required
\* key of user_data
Calculated(dialogue, ud) ==
    IF dialogue = "salary"
    THEN IF ~({"hourly_rate", "days_worked"} \subseteq DOMAIN ud)
         THEN Raised("KeyError", "", NoSalaryResult)
         ELSE IF salary_arguments(ud) = EnteredSalaryArguments THEN EnteredSalaryResult
         ELSE calculate_salary(salary_arguments(ud))
    ELSE IF ~({"annual_hourly_rate", "annual_months"} \subseteq DOMAIN ud)
         THEN Raised("KeyError", "", NoAnnualResult)
         ELSE IF annual_arguments(ud) = EnteredAnnualArguments THEN EnteredAnnualResult
         ELSE calculate_annual_bonus(annual_arguments(ud))

\* "return", or the name of the exception
Received(calculation) == IF calculation.kind = "return" THEN "return" ELSE calculation.exc

\* What a confirm handler has done when it is over: as Handled, with what
\* it got from the calculator and whether it saved a record
Confirmed(handled, calc, saved) ==
    [state |-> handled.state, user_data |-> handled.user_data, exc |-> handled.exc,
     failures |-> handled.failures, calc |-> calc, saved |-> saved]

\* The end of each branch of a confirm or cancel handler: the message is
\* sent, then context.user_data.clear() and return ConversationHandler.END;
\* a message that cannot be sent raises out of the handler
ReplyClearEnd(sent, state, ud, failures) ==
    IF sent THEN Handled("END", <<>>, "", failures)
    ELSE Handled(state, ud, "NetworkError", failures + 1)

\* confirm_salary (lines 543-617) and confirm_annual_bonus (1011-1068),
\* called in state with sent[i] telling whether the i-th message it sends
\* goes out, saves whether the record can be saved, and calc what the
\* calculator returns or raises.  The report that
\* cannot be sent lands in `except Exception`, which sends its own message
confirm(dialogue, state, sent, saves, ud, calc) ==
        IF ~sent[1] THEN Confirmed(Handled(state, ud, "NetworkError", 1), "none", FALSE)
        ELSE IF calc # "return"
        THEN Confirmed(ReplyClearEnd(sent[2], state, ud, 0), calc, FALSE)
        ELSE IF dialogue = "salary" /\ ~saves
        THEN Confirmed(ReplyClearEnd(sent[2], state, ud, 0), calc, FALSE)
        ELSE IF sent[2]
        THEN Confirmed(Handled("END", <<>>, "", 0), calc, dialogue = "salary")
        ELSE Confirmed(ReplyClearEnd(sent[3], state, ud, 1), calc, dialogue = "salary")

\* A handler that ends the dialogue and leaves user_data as it is
cancel_without_clear(query, state, sent, ud) ==
    IF query /\ ~sent[1] THEN Handled(state, ud, "NetworkError", 1)
    ELSE IF (IF query THEN sent[2] ELSE sent[1]) THEN Handled("END", ud, "", 0)
    ELSE Handled(state, ud, "NetworkError", 1)

\* cancel_salary (lines 620-633) and cancel_annual_bonus (1071-1084):
\* query.answer() for a button, user_data.clear(), then the message
cancel(query, state, sent, ud) ==
    IF query /\ ~sent[1] THEN Handled(state, ud, "NetworkError", 1)
    ELSE ReplyClearEnd(IF query THEN sent[2] ELSE sent[1], state, <<>>, 0)

\* salary_start (one message), salary_start_from_button and
\* annual_bonus_start (query.answer(), then query.edit_message_text())
start(query, first, sent, ud) ==
    IF ~sent[1] THEN Handled("END", ud, "NetworkError", 1)
    ELSE IF query /\ ~sent[2] THEN Handled("END", ud, "NetworkError", 1)
    ELSE Handled(first, ud, "", 0)

\* The updates of the user: a text that is no command, a command, the
\* press of an inline button
Message(text) == [kind |-> "message", text |-> text]
Command(name) == [kind |-> "command", command |-> name]
CallbackQuery(data) == [kind |-> "callback_query", data |-> data]

IsCommand(update, names) == update.kind = "command" /\ update.command \in names

IsCallback(update, datas) == update.kind = "callback_query" /\ update.data \in datas

\* ConversationHandler.check_update of salary_conv_handler (lines
\* 1261-1285): the handler that takes the update, "none" if none does
salary_conv_check(update) ==
    IF salary_conv_handler = "END"
    THEN IF IsCommand(update, {"salary"}) THEN "salary_start"
         ELSE IF IsCallback(update, {"salary"}) THEN "salary_start_from_button"
         ELSE "none"
    ELSE IF salary_conv_handler # "CONFIRM" /\ update.kind = "message"
    THEN SalaryHandlers[StateIndex(SalaryStates, salary_conv_handler)]
    ELSE IF salary_conv_handler = "CONFIRM" /\ IsCallback(update, {"confirm"})
    THEN "confirm_salary"
    ELSE IF salary_conv_handler = "CONFIRM" /\ IsCallback(update, {"cancel"})
    THEN "cancel_salary"
    ELSE IF IsCommand(update, {"cancel", "start"}) THEN "cancel_salary"
    ELSE "none"

\* ConversationHandler.check_update of annual_bonus_conv_handler (lines
\* 1289-1324)
annual_conv_check(update) ==
    IF annual_bonus_conv_handler = "END"
    THEN IF IsCallback(update, {"annual_bonus"}) THEN "annual_bonus_start" ELSE "none"
    ELSE IF annual_bonus_conv_handler # "ANNUAL_CONFIRM" /\ update.kind = "message"
    THEN AnnualHandlers[StateIndex(AnnualStates, annual_bonus_conv_handler)]
    ELSE IF annual_bonus_conv_handler = "ANNUAL_CONFIRM" /\ IsCallback(update, {"confirm"})
    THEN "confirm_annual_bonus"
    ELSE IF annual_bonus_conv_handler = "ANNUAL_CONFIRM" /\ IsCallback(update, {"cancel"})
    THEN "cancel_annual_bonus"
    ELSE IF IsCommand(update, {"cancel", "start"}) THEN "cancel_annual_bonus"
    ELSE "none"

\* The two dialogues in the order of add_handler (lines 1287, 1326); one
\* group holds all handlers, so the first that takes the update handles it
first_conversation(update) ==
    IF salary_conv_check(update) # "none" THEN salary_conv_check(update)
    ELSE annual_conv_check(update)

\* Application.process_update over the handlers of setup_handlers
Dispatch(update) ==
    IF first_conversation(update) # "none" THEN first_conversation(update)
    ELSE IF IsCommand(update, {"start"}) THEN "start_command"
    ELSE IF update.kind = "callback_query" THEN "button_callback"
    ELSE IF update.kind = "message" THEN "handle_message"
    ELSE "none"

\* Whether each of the n messages a handler may send, in their order, goes
\* out
Deliveries(n) == [1..n -> BOOLEAN]

\* A handler has handled an update and ended as handled
AfterUpdate(handled) ==
    /\ outage' = (outage \/ handled.failures > 0)
    /\ user_data' = handled.user_data
    /\ UNCHANGED <<engine, SessionLocal, schema, users, weather_records,
                   sessions, dpc, dloc, dcalls, init_ok>>
    /\ UNCHANGED <<calculatorVars, cacheVars, fetchVars, flightVars, errorVars>>

\* /salary or the button 'salary' with no salary dialogue under way
SalaryDialogueStart ==
    \E update \in {Command("salary"), CallbackQuery("salary")} : \E sent \in Deliveries(2) :
        LET handled == start(update.kind = "callback_query", "HOURLY_RATE", sent, user_data)
        IN  /\ Dispatch(update) \in {"salary_start", "salary_start_from_button"}
            /\ salary_conv_handler' = handled.state
            /\ saved_in_run' = IF handled.exc = "" THEN 0 ELSE saved_in_run
            /\ AfterUpdate(handled)
            /\ UNCHANGED <<annual_bonus_conv_handler, salary_records>>

\* A text in a state of the salary dialogue that takes one
SalaryText ==
    \E text \in Asked(salary_conv_handler) : \E sent \in Deliveries(1) :
        LET handled == TextHandler(SalaryStates, salary_conv_handler, text, sent[1],
                                   user_data)
        IN  /\ salary_conv_check(Message(text)) \in Range(SalaryHandlers)
            /\ salary_conv_handler' = handled.state
            /\ AfterUpdate(handled)
            /\ UNCHANGED <<annual_bonus_conv_handler, salary_records, saved_in_run>>

\* The button 'confirm' in state CONFIRM.  SalaryCRUD.create commits the
\* record inside `with db_session()` before the report is sent
ConfirmSalary ==
    /\ Dispatch(CallbackQuery("confirm")) = "confirm_salary"
    /\ \E calculation \in {Calculated("salary", user_data)} :
       \E sent \in Deliveries(3) : \E saves \in BOOLEAN :
        LET handled == confirm("salary", salary_conv_handler, sent, saves,
                               user_data, Received(calculation))
            record  == [SalaryRecord(UserId, float(calculation.value.net), now)
                        EXCEPT !.id = Len(salary_records) + 1]
        IN  /\ handled.saved => Len(salary_records) < MaxRecords
            /\ salary_conv_handler' = handled.state
            /\ salary_records' = IF handled.saved THEN Append(salary_records, record)
                                 ELSE salary_records
            /\ AfterUpdate(handled)
            /\ saved_in_run' = IF handled.saved THEN saved_in_run + 1 ELSE saved_in_run
            /\ UNCHANGED annual_bonus_conv_handler

\* The button 'cancel' in state CONFIRM, /cancel or /start in any state of
\* the salary dialogue
CancelSalary ==
    \E update \in {CallbackQuery("cancel"), Command("cancel"), Command("start")} :
    \E sent \in Deliveries(2) :
        LET handled == cancel(update.kind = "callback_query", salary_conv_handler,
                              sent, user_data)
        IN  /\ Dispatch(update) = "cancel_salary"
            /\ salary_conv_handler' = handled.state
            /\ AfterUpdate(handled)
            /\ UNCHANGED <<annual_bonus_conv_handler, salary_records, saved_in_run>>

\* The button 'annual_bonus' with no annual bonus dialogue under way
AnnualBonusStart ==
    \E sent \in Deliveries(2) :
        LET handled == start(TRUE, "ANNUAL_HOURLY_RATE", sent, user_data)
        IN  /\ Dispatch(CallbackQuery("annual_bonus")) = "annual_bonus_start"
            /\ annual_bonus_conv_handler' = handled.state
            /\ AfterUpdate(handled)
            /\ UNCHANGED <<salary_conv_handler, salary_records, saved_in_run>>

\* A text the salary dialogue does not take, in a state of the annual bonus
\* dialogue that takes one
AnnualText ==
    \E text \in Asked(annual_bonus_conv_handler) : \E sent \in Deliveries(1) :
        LET handled == TextHandler(AnnualStates, annual_bonus_conv_handler, text,
                                   sent[1], user_data)
        IN  /\ Dispatch(Message(text)) \in Range(AnnualHandlers)
            /\ annual_bonus_conv_handler' = handled.state
            /\ AfterUpdate(handled)
            /\ UNCHANGED <<salary_conv_handler, salary_records, saved_in_run>>

\* The button 'confirm' in state ANNUAL_CONFIRM, the salary dialogue not
\* being in CONFIRM
ConfirmAnnualBonus ==
    /\ Dispatch(CallbackQuery("confirm")) = "confirm_annual_bonus"
    /\ \E calculation \in {Calculated("annual", user_data)} : \E sent \in Deliveries(3) :
        LET handled == confirm("annual", annual_bonus_conv_handler, sent,
                               TRUE, user_data, Received(calculation))
        IN  /\ annual_bonus_conv_handler' = handled.state
            /\ AfterUpdate(handled)
            /\ UNCHANGED <<salary_conv_handler, salary_records, saved_in_run>>

\* The button 'cancel' in state ANNUAL_CONFIRM, /cancel or /start in any
\* state of the annual bonus dialogue, the salary dialogue not taking it
CancelAnnualBonus ==
    \E update \in {CallbackQuery("cancel"), Command("cancel"), Command("start")} :
    \E sent \in Deliveries(2) :
        LET handled == cancel(update.kind = "callback_query", annual_bonus_conv_handler,
                              sent, user_data)
        IN  /\ Dispatch(update) = "cancel_annual_bonus"
            /\ annual_bonus_conv_handler' = handled.state
            /\ AfterUpdate(handled)
            /\ UNCHANGED <<salary_conv_handler, salary_records, saved_in_run>>

\* button_callback (lines 1087-1096) for a button of the dialogues that no
\* dialogue takes: query.answer(), then return
ButtonCallback ==
    \E update \in {CallbackQuery("confirm"), CallbackQuery("cancel")} :
    \E sent \in Deliveries(1) :
        /\ Dispatch(update) = "button_callback"
        /\ AfterUpdate(Handled("END", user_data, IF sent[1] THEN "" ELSE "NetworkError",
                               IF sent[1] THEN 0 ELSE 1))
        /\ UNCHANGED <<salary_conv_handler, annual_bonus_conv_handler, salary_records,
                       saved_in_run>>

\* handle_message (lines 1195-1201) for a text no dialogue takes: one reply
HandleMessage ==
    \E text \in {T_12} : \E sent \in Deliveries(1) :
        /\ Dispatch(Message(text)) = "handle_message"
        /\ AfterUpdate(Handled("END", user_data, IF sent[1] THEN "" ELSE "NetworkError",
                               IF sent[1] THEN 0 ELSE 1))
        /\ UNCHANGED <<salary_conv_handler, annual_bonus_conv_handler, salary_records,
                       saved_in_run>>

DialogueNext ==
    \/ SalaryDialogueStart
    \/ SalaryText
    \/ ConfirmSalary
    \/ CancelSalary
    \/ AnnualBonusStart
    \/ AnnualText
    \/ ConfirmAnnualBonus
    \/ CancelAnnualBonus
    \/ ButtonCallback
    \/ HandleMessage

\* The database is initialised, nobody is in a dialogue
DialogueInit ==
    /\ NoCalculatorUse
    /\ NoCacheUse
    /\ NoFetchUse
    /\ NoFlightUse
    /\ Initialised({})
    /\ NoErrorUse
    /\ NoDialogueUse

DialogueSpec == DialogueInit /\ [][DialogueNext]_vars

(***************************************************************************)
(* The claims.  A claim about "every valid input" is stated over every     *)
(* call the callers make; result is the dict of the call just made and     *)
(* prevResult that of the call before it.  Arithmetic in the formulas is   *)
(* Decimal arithmetic, operation by operation as the claim writes it.      *)
(***************************************************************************)
result     == outcome.value
prevResult == prevOutcome.value

SalaryCalled   == fn = "salary" /\ pc # "ready"
SalaryReturned == fn = "salary" /\ pc = "returned"
AnnualReturned == fn = "annual" /\ pc = "returned"

\* Both the call just made and the one before it returned
BothReturned == pc = "returned" /\ prevOutcome.kind = "return"

\* An omitted optional parameter counts as 0
Opt(x) == IF x = None THEN Zero ELSE x

\* The two calls' arguments differ in parameter p and in nothing else
DifferOnlyIn(p) ==
    /\ args[p] # prevArgs[p]
    /\ \A q \in SalaryParams \ {p} : args[q] = prevArgs[q]

GivenNegative(x)   == x # None /\ DecLt(x, Zero)
GivenOutOfRange(x) == x # None /\ (DecLt(x, Zero) \/ DecGt(x, Hundred))

\* The constraints on the input, in the order of C2: which of them a violates
SalaryViolations(a) ==
    << ~DecGt(a.hourly_rate, Zero),
       DecLt(a.days_worked, Zero),
       DecGt(a.days_worked, D(365, 0)),
       GivenNegative(a.night_hours),
       GivenNegative(a.idle_days),
       GivenNegative(a.travel_days),
       GivenNegative(a.holiday_days),
       GivenNegative(a.additional_payments),
       GivenOutOfRange(a.regional_allowance_rate),
       GivenOutOfRange(a.northern_allowance_rate) >>

SalaryReasons ==
    << ErrHourlyRate, ErrDaysNegative, ErrDaysMax, ErrNightHours, ErrIdleDays,
       ErrTravelDays, ErrHolidayDays, ErrAdditional, ErrRegional, ErrNorthern >>

MeetsSalaryConstraints(a) ==
    LET violated == SalaryViolations(a) IN \A k \in 1..Len(SalaryReasons) : ~violated[k]

\* The derived fields of the result
SalaryDerived ==
    {"hours_by_timesheet", "salary_by_position", "holiday_payment", "idle_payment",
     "travel_payment", "shift_method_payment", "night_shift_payment", "monthly_bonus",
     "regional_allowance", "northern_allowance", "total_accrued", "taxable_base",
     "tax", "net"}

\* C1: calculate_salary raises SalaryCalculationError if and only if the
\* input violates a constraint; an input meeting all constraints gets a
\* result with every derived field populated; a call that raises returns no
\* result, not even a partial one.
C1_RaisesIffConstraintViolated ==
    SalaryCalled =>
        /\ (outcome.kind = "raise" /\ outcome.exc = "SalaryCalculationError")
              <=> ~MeetsSalaryConstraints(args)
        /\ MeetsSalaryConstraints(args) =>
              /\ outcome.kind = "return"
              /\ \A k \in SalaryDerived : IsNum(result[k])
        /\ outcome.kind = "raise" => result = NoSalaryResult

\* A call with an invalid input has raised and left no result
C1_InvalidInputRaised ==
    /\ SalaryCalled
    /\ ~MeetsSalaryConstraints(args)
    /\ outcome.exc = "SalaryCalculationError"
    /\ result = NoSalaryResult

\* C2: a failed validation carries the reason of the first violated check in
\* the order hourly_rate, days_worked < 0, days_worked > 365, night_hours,
\* idle_days, travel_days, holiday_days, additional_payments, regional rate,
\* northern rate; so days_worked = -5 with a valid hourly_rate gives the
\* days-negative reason, hourly_rate = 0 the hourly-rate reason, and a
\* regional rate of 150 or a northern rate of -10, alone, its range reason.
C2_ReasonOfFirstViolatedCheck ==
    (SalaryCalled /\ outcome.exc = "SalaryCalculationError") =>
        LET violated == SalaryViolations(args) IN
        /\ \E k \in 1..Len(SalaryReasons) :
              /\ violated[k]
              /\ \A j \in 1..(k - 1) : ~violated[j]
              /\ outcome.msg = SalaryReasons[k]
        /\ args.hourly_rate = Zero => outcome.msg = ErrHourlyRate
        /\ (args.days_worked = D(-5, 0) /\ DecGt(args.hourly_rate, Zero))
              => outcome.msg = ErrDaysNegative
        /\ (args.regional_allowance_rate = D(150, 0) /\ \A j \in 1..8 : ~violated[j])
              => outcome.msg = ErrRegional
        /\ (args.northern_allowance_rate = D(-10, 0) /\ \A j \in 1..9 : ~violated[j])
              => outcome.msg = ErrNorthern

\* Both allowance rates are out of range, every earlier check passes, and
\* the call has raised with the regional reason
C2_SeveralInvalidFields ==
    /\ SalaryCalled
    /\ outcome.exc = "SalaryCalculationError"
    /\ SalaryViolations(args)[9]
    /\ SalaryViolations(args)[10]
    /\ outcome.msg = ErrRegional

\* C3: in every result total_accrued is the sum of the ten payments in the
\* order written, taxable_base = total_accrued - shift_method_payment -
\* travel_payment, tax = taxable_base x 13/100 and net = total_accrued - tax,
\* over the values of the same result.
C3_TotalsFromResult ==
    SalaryReturned =>
        /\ result.total_accrued =
              DecAdd(DecAdd(DecAdd(DecAdd(DecAdd(DecAdd(DecAdd(DecAdd(DecAdd(
                  result.salary_by_position, result.holiday_payment),
                  result.idle_payment), result.travel_payment),
                  result.shift_method_payment), result.night_shift_payment),
                  result.monthly_bonus), result.regional_allowance),
                  result.northern_allowance), result.additional_payments)
        /\ result.taxable_base =
              DecSub(DecSub(result.total_accrued, result.shift_method_payment),
                     result.travel_payment)
        /\ result.tax = DecMul(result.taxable_base, DecDiv(D(13, 0), D(100, 0)))
        /\ result.net = DecSub(result.total_accrued, result.tax)

\* A result in which every one of the ten payments is non-zero
C3_EveryPaymentPresent ==
    /\ SalaryReturned
    /\ \A k \in {"salary_by_position", "holiday_payment", "idle_payment",
                 "travel_payment", "shift_method_payment", "night_shift_payment",
                 "monthly_bonus", "regional_allowance", "northern_allowance",
                 "additional_payments"} : ~IsZero(result[k])
    /\ DecGt(result.tax, Zero)

AllowanceBaseOfResult ==
    DecAdd(DecAdd(DecAdd(DecAdd(result.salary_by_position, result.holiday_payment),
                         result.night_shift_payment), result.monthly_bonus),
           result.idle_payment)

C6_AllowancesOnSameBase ==
    /\ SalaryReturned =>
          /\ result.regional_allowance =
                DecMul(AllowanceBaseOfResult,
                       DecDiv(Opt(args.regional_allowance_rate), D(100, 0)))
          /\ result.northern_allowance =
                DecMul(AllowanceBaseOfResult,
                       DecDiv(Opt(args.northern_allowance_rate), D(100, 0)))
    /\ (SalaryCalled /\ args = SalaryAllowances) =>
          /\ pc = "returned"
          /\ result.regional_allowance = D(43890, 0)
          /\ result.northern_allowance = D(109725, 0)

\* The example with both rates was calculated and both allowances are paid
C6_BothAllowancesPaid ==
    /\ SalaryReturned
    /\ args = SalaryAllowances
    /\ result.regional_allowance = D(43890, 0)
    /\ result.northern_allowance = D(109725, 0)

\* C7: calculate_salary(hourly_rate = 1000, days_worked = 15) returns
\* hours_by_timesheet 165, salary_by_position 165000, monthly_bonus 54450,
\* shift_method_payment 11100, total_accrued 230550, tax 28528.50 and net
\* 202021.50.
C7_ScenarioA ==
    (SalaryCalled /\ args = SalaryBasic) =>
        /\ pc = "returned"
        /\ result.hours_by_timesheet = D(165, 0)
        /\ result.salary_by_position = D(165000, 0)
        /\ result.monthly_bonus = D(54450, 0)
        /\ result.shift_method_payment = D(11100, 0)
        /\ result.total_accrued = D(230550, 0)
        /\ result.tax = D(2852850, -2)
        /\ result.net = D(20202150, -2)

\* Scenario A was calculated
C7_ScenarioACalculated ==
    /\ SalaryReturned
    /\ args = SalaryBasic
    /\ result.net = D(20202150, -2)

\* An amount with at most two decimal places
CentExact(x) == IsNum(x) /\ (IsZero(x) \/ x.e >= -2)

\* C8: the idle_payment returned is a cent-exact amount, and 2 idle days at
\* hourly rate 1000 give exactly 14666.67, with idle_days the only optional
\* input and with all parameters supplied.
C8_IdlePaymentCentExact ==
    SalaryReturned =>
        /\ CentExact(args.hourly_rate) => CentExact(result.idle_payment)
        /\ (args = SalaryIdle \/ args = SalaryFull)
              => result.idle_payment = D(1466667, -2)

\* C9: for every valid input 0 <= tax and net <= total_accrued, in both
\* calculators; in regular payroll also taxable_base >= 0 and net >=
\* shift_method_payment + travel_payment.
C9_TaxAndNetBounds ==
    /\ (SalaryReturned \/ AnnualReturned) =>
          /\ DecLe(Zero, result.tax)
          /\ DecLe(result.net, result.total_accrued)
    /\ SalaryReturned =>
          /\ DecLe(Zero, result.taxable_base)
          /\ DecLe(DecAdd(result.shift_method_payment, result.travel_payment),
                   result.net)

\* C10: net = 0.87 x taxable_base + shift_method_payment + travel_payment;
\* for two valid inputs that differ only in additional_payments, by x,
\* total_accrued differs by x and net by 0.87 x.
AdditionalDifference ==
    DecSub(Opt(args.additional_payments), Opt(prevArgs.additional_payments))

C10_NetOfTaxableAndExempt ==
    /\ SalaryReturned =>
          result.net =
              DecAdd(DecAdd(DecMul(D(87, -2), result.taxable_base),
                            result.shift_method_payment), result.travel_payment)
    /\ (SalaryReturned /\ BothReturned /\ DifferOnlyIn("additional_payments")) =>
          /\ DecSub(result.total_accrued, prevResult.total_accrued)
                = AdditionalDifference
          /\ DecSub(result.net, prevResult.net)
                = DecMul(D(87, -2), AdditionalDifference)

SalaryOptional ==
    {"night_hours", "idle_days", "travel_days", "holiday_days", "additional_payments",
     "regional_allowance_rate", "northern_allowance_rate"}

\* The arguments with every omitted parameter passed explicitly as 0
ExplicitZeros(a) == [p \in DOMAIN a |-> Opt(a[p])]

\* C11: every omitted optional parameter of calculate_salary is resolved to
\* 0: the result echoes 0 for it and equals, field by field, the result of
\* the call with the omitted parameters passed explicitly as 0; two
\* consecutive calls that differ only in that one omits what the other
\* passes as 0 return equal results.
C11_OmittedIsZero ==
    /\ SalaryReturned =>
          /\ \A p \in SalaryOptional : args[p] = None => result[p] = Zero
          /\ calculate_salary(ExplicitZeros(args)) = outcome
    /\ (SalaryReturned /\ BothReturned /\ ExplicitZeros(args) = ExplicitZeros(prevArgs))
          => result = prevResult

\* A call that passes one optional parameter as 0, supplies another and
\* omits a third has returned, after the call that omitted the first
C11_ExplicitZeroAfterOmitted ==
    /\ SalaryReturned
    /\ BothReturned
    /\ args # prevArgs
    /\ ExplicitZeros(args) = ExplicitZeros(prevArgs)
    /\ \E p \in SalaryOptional : args[p] = Zero /\ prevArgs[p] = None
    /\ \E p \in SalaryOptional : args[p] # None /\ ~IsZero(args[p])
    /\ \E p \in SalaryOptional : args[p] = None
    /\ result = prevResult

AnnualCalled == fn = "annual" /\ pc # "ready"

\* The constraints of C12 on the input of calculate_annual_bonus
AnnualConstraintViolated(a) ==
    \/ ~DecGt(a.hourly_rate, Zero)
    \/ DecLt(a.months_in_company, D(1, 0))
    \/ DecGt(a.months_in_company, D(12, 0))
    \/ Len(a.monthly_days) # 12
    \/ {a.monthly_days[i].k : i \in 1..Len(a.monthly_days)} # 1..12
    \/ \E i \in 1..Len(a.monthly_days) :
          DecLt(a.monthly_days[i].d, Zero) \/ DecGt(a.monthly_days[i].d, D(31, 0))
    \/ GivenOutOfRange(a.monthly_bonus_rate)
    \/ GivenOutOfRange(a.target_annual_bonus_rate)
    \/ GivenOutOfRange(a.regional_allowance_rate)
    \/ GivenOutOfRange(a.northern_allowance_rate)
    \/ GivenNegative(a.kpi_coefficient)
    \/ GivenNegative(a.correction_coefficient)

AnnualErrorRaised ==
    /\ outcome.kind = "raise"
    /\ outcome.exc = "AnnualBonusCalculationError"
    /\ result = NoAnnualResult

\* The result holds every month and every aggregate value
FullAnnualResult ==
    /\ outcome.kind = "return"
    /\ DOMAIN result.monthly_data = 1..12
    /\ \A m \in 1..12 : \A k \in MonthKeys \ {"name"} : IsNum(result.monthly_data[m][k])
    /\ \A k \in AnnualResultKeys \ {"monthly_data"} : IsNum(result[k])

\* C12: calculate_annual_bonus raises AnnualBonusCalculationError, with no
\* monthly or aggregate value computed, whenever a constraint on its input
\* is violated; an input that meets every constraint and supplies
\* target_annual_bonus_rate gets a full result.
C12_AnnualRaisesOrReturnsFull ==
    AnnualCalled =>
        /\ AnnualConstraintViolated(args) => AnnualErrorRaised
        /\ (~AnnualConstraintViolated(args) /\ args.target_annual_bonus_rate # None)
              => FullAnnualResult

\* A call with an input that violates a constraint has raised
C12_InvalidAnnualInputRaised ==
    /\ AnnualCalled
    /\ AnnualConstraintViolated(args)
    /\ AnnualErrorRaised

\* C13: target_annual_bonus_rate has no default: omitted, with every other
\* input valid, the call raises AnnualBonusCalculationError saying that the
\* target rate is required and returns no result; supplied as 0 it is not
\* rejected, and the result echoes 0 and is calculated with 0.
C13_TargetRateRequired ==
    (AnnualCalled /\ ~AnnualConstraintViolated(args)) =>
        /\ args.target_annual_bonus_rate = None =>
              /\ AnnualErrorRaised
              /\ outcome.msg = ErrTargetRequired
        /\ args.target_annual_bonus_rate = Zero =>
              /\ outcome.exc # "AnnualBonusCalculationError"
              /\ pc = "returned" =>
                    /\ result.target_annual_bonus_rate = Zero
                    /\ result.annual_reward_without_allowances = Zero
                    /\ result.net = Zero

\* A call without the target rate, everything else valid, has raised
C13_TargetOmittedRaised ==
    /\ AnnualCalled
    /\ ~AnnualConstraintViolated(args)
    /\ args.target_annual_bonus_rate = None
    /\ outcome.msg = ErrTargetRequired
    /\ result = NoAnnualResult

AnnualWithDefault ==
    [monthly_bonus_rate      |-> DEFAULT_MONTHLY_BONUS_RATE,
     kpi_coefficient         |-> DEFAULT_KPI_COEFFICIENT,
     correction_coefficient  |-> DEFAULT_CORRECTION_COEFFICIENT,
     regional_allowance_rate |-> Zero,
     northern_allowance_rate |-> Zero]

\* C14: in a returned annual result every parameter with a default echoes the
\* default when it was omitted and the supplied value otherwise, a supplied 0
\* included; a supplied kpi_coefficient or correction_coefficient of 0 makes
\* annual_reward_without_allowances 0, and a supplied monthly_bonus_rate of 0
\* makes every month's bonus 0
C14_DefaultsOnlyWhenOmitted ==
    AnnualReturned =>
        /\ \A p \in DOMAIN AnnualWithDefault :
              result[p] = IF args[p] = None THEN AnnualWithDefault[p] ELSE args[p]
        /\ (args.kpi_coefficient = Zero \/ args.correction_coefficient = Zero) =>
              result.annual_reward_without_allowances = Zero
        /\ args.monthly_bonus_rate = Zero =>
              \A m \in DOMAIN result.monthly_data : result.monthly_data[m].bonus = Zero

\* A returned call that was given 0 for a parameter whose default is not 0
C14_ZeroSupplied ==
    /\ AnnualReturned
    /\ \E p \in {"monthly_bonus_rate", "kpi_coefficient", "correction_coefficient"} :
          args[p] = Zero

\* base[1] + ... + base[m] of a per-month breakdown, added in month order
RECURSIVE SumOfBases(_, _)
SumOfBases(monthly_data, m) ==
    IF m = 0 THEN Zero
    ELSE DecAdd(SumOfBases(monthly_data, m - 1), monthly_data[m].base)

\* C15: a returned annual result holds a breakdown with exactly the keys
\* 1..12 in which hours = days x 11, salary = hours x hourly_rate, bonus =
\* salary x monthly_bonus_rate/100 and base = salary + bonus for the days
\* given for the month; average_monthly_base is the sum of the twelve bases
\* divided by months_in_company, and annual_base is that average times 12
C15_MonthlyBreakdown ==
    AnnualReturned =>
        LET md == result.monthly_data IN
        /\ DOMAIN md = 1..12
        /\ \A m \in 1..12 :
              /\ md[m].days   = monthly_days_get(args.monthly_days, m, Zero)
              /\ md[m].hours  = DecMul(md[m].days, D(11, 0))
              /\ md[m].salary = DecMul(md[m].hours, result.hourly_rate)
              /\ md[m].bonus  = DecMul(md[m].salary,
                                       DecDiv(result.monthly_bonus_rate, Hundred))
              /\ md[m].base   = DecAdd(md[m].salary, md[m].bonus)
        /\ result.hourly_rate = args.hourly_rate
        /\ result.months_in_company = args.months_in_company
        /\ result.average_monthly_base =
              DecDiv(SumOfBases(md, 12), result.months_in_company)
        /\ result.annual_base = DecMul(result.average_monthly_base, D(12, 0))

\* A returned call for fewer than 12 months in the company, with months
\* without days among the twelve and a non-zero annual base
C15_PartYearCalculated ==
    /\ AnnualReturned
    /\ args.months_in_company # D(12, 0)
    /\ \E m \in 1..12 : result.monthly_data[m].days = Zero
    /\ \E m \in 1..12 : ~IsZero(result.monthly_data[m].base)
    /\ ~IsZero(result.annual_base)

\* C16: in a returned annual result, with the rates and coefficients it
\* echoes, annual_reward_without_allowances = annual_base x target/100 x kpi
\* x correction x months_in_company/12, each allowance is that reward times
\* its rate/100, total_accrued is the sum of the three, tax is total_accrued
\* x 13/100 and net is total_accrued - tax; Scenario C gives annual_base
\* 3511200, reward and total_accrued 702240, tax 91291.20 and net 610948.80
C16_RewardAllowancesTaxNet ==
    AnnualReturned =>
        LET r == result IN
        /\ r.annual_reward_without_allowances =
              DecMul(DecMul(DecMul(DecMul(r.annual_base,
                                          DecDiv(r.target_annual_bonus_rate, Hundred)),
                                   r.kpi_coefficient),
                            r.correction_coefficient),
                     DecDiv(r.months_in_company, D(12, 0)))
        /\ r.regional_allowance =
              DecMul(r.annual_reward_without_allowances,
                     DecDiv(r.regional_allowance_rate, Hundred))
        /\ r.northern_allowance =
              DecMul(r.annual_reward_without_allowances,
                     DecDiv(r.northern_allowance_rate, Hundred))
        /\ r.total_accrued =
              DecAdd(DecAdd(r.annual_reward_without_allowances, r.regional_allowance),
                     r.northern_allowance)
        /\ r.tax = DecMul(r.total_accrued, DecDiv(D(13, 0), Hundred))
        /\ r.net = DecSub(r.total_accrued, r.tax)
        /\ args = AnnualScenario =>
              /\ r.annual_base = D(3511200, 0)
              /\ r.annual_reward_without_allowances = D(702240, 0)
              /\ r.total_accrued = D(702240, 0)
              /\ r.tax = D(9129120, -2)
              /\ r.net = D(61094880, -2)

\* Scenario C has been calculated
C16_ScenarioCCalculated == AnnualReturned /\ args = AnnualScenario

\* The call just made had the same arguments as the call before it
RepeatedCall == pc # "ready" /\ ncalls > 1 /\ args = prevArgs

OptionalComponents ==
    {"holiday_payment", "idle_payment", "travel_payment", "night_shift_payment",
     "monthly_bonus", "regional_allowance", "northern_allowance",
     "additional_payments"}

\* The report has the line of the component
Printed(component) == \E i \in 1..Len(report) : report[i].label = component

\* C18: in the report formatted from a result of calculate_salary the line
\* of an optional component is printed if and only if the component's
\* computed amount is not 0
C18_LineIffAmountNonZero ==
    SalaryReturned =>
        \A component \in OptionalComponents :
            Printed(component) <=> ~IsZero(result[component])

\* A report formatted from a result with optional components of both kinds,
\* some with a non-zero amount and some with none
C18_ReportFormatted ==
    /\ SalaryReturned
    /\ report # NoReport
    /\ \E component \in OptionalComponents : ~IsZero(result[component])
    /\ \E component \in OptionalComponents : IsZero(result[component])

\* Thread t has returned from a call of op
Done(t, op) == t \in threads /\ tpc[t] = "done" /\ tloc[t].op = op

\* At time T a set() that no clear() followed is less than the duration old
Fresh(T) == lastSet # NoSet /\ T - lastSet.at < cache_duration

\* The time at which a finished get() looked at the cache: when it read the
\* clock, or when it was called if it returned without reading it
LookedAt(t) ==
    IF tloc[t].current_time >= 0 THEN tloc[t].current_time ELSE tloc[t].started

\* C19: a get() that follows any sequence of set, get, clear and is_valid
\* calls returns the value of the most recent set() if no clear() followed
\* that set() and less than the duration has passed since it, and None in
\* every other case; with duration 0 it returns None after every set()
C19_GetReturnsFreshValue ==
    \A t \in CacheThreads :
        Done(t, "get") =>
            /\ tloc[t].ret = IF Fresh(LookedAt(t)) THEN lastSet.value ELSE Nothing
            /\ cache_duration = 0 => tloc[t].ret = Nothing

\* A get() has returned the cached value after an earlier entry had expired
\* and been replaced, a second before the new entry expires
C19_FreshValueReturned ==
    /\ Done("t1", "get")
    /\ tloc["t1"].ret = "w2"
    /\ lastSet.at > StartTime
    /\ tloc["t1"].current_time = lastSet.at + 1
    /\ base.cache = "w2"

\* The times a call may have seen: the time it read if it read the clock,
\* any time otherwise
CallTimes(call) ==
    IF call.current_time >= 0 THEN {call.current_time}
    ELSE StartTime..(StartTime + MaxTime)

\* The two calls returned, and left the cache, as they would have run one
\* after the other, first's before second's
RanAs(first, second) ==
    \E T1 \in CallTimes(tloc[first]) : \E T2 \in CallTimes(tloc[second]) :
        LET s1 == SeqCall(base, tloc[first], T1)
            s2 == SeqCall(s1, tloc[second], T2)
        IN  /\ s1.ret = tloc[first].ret
            /\ s2.ret = tloc[second].ret
            /\ s2.cache = cache

\* Both threads have made a call since the cache was last at rest, and both
\* calls have returned
BothDone == threads = CacheThreads /\ \A t \in CacheThreads : tpc[t] = "done"

\* C20: when two threads' calls of get, set, clear and is_valid have run
\* with their statements interleaved, the values they returned and the
\* content they left in the cache are those of one of the two orders in
\* which the calls can run one after the other
C20_CallsRunAsInSomeOrder ==
    BothDone => RanAs("t1", "t2") \/ RanAs("t2", "t1")

\* A get() has found the old entry expired and is about to erase it, while
\* a set() of the other thread has meanwhile stored a value that is not
\* expired
C20_SetDuringExpiredGet ==
    /\ threads = CacheThreads
    /\ tpc["t1"] = "get:58"
    /\ Done("t2", "set")
    /\ cache = tloc["t2"].arg
    /\ cache_duration > 0
    /\ ~Expired(now, cache_timestamp, cache_duration)

\* What a get() run at time T on the content st would return
GetAt(st, T) == SeqCall(st, [op |-> "get", arg |-> Nothing], T).ret

\* The cache holds what it held when the call under way began
CacheUntouched ==
    /\ cache = base.cache
    /\ cache_timestamp = base.cache_timestamp

\* C27: is_valid() returns true exactly when a get() made at the same
\* instant would return data, and never changes the cache; get() on an
\* expired entry resets the entry to empty with timestamp 0, and get() on
\* a fresh or an empty cache changes nothing
C27_IsValidAgreesWithGet ==
    /\ Done("t1", "is_valid") =>
           /\ tloc["t1"].ret = "True" <=> GetAt(base, LookedAt("t1")) # Nothing
           /\ CacheUntouched
    /\ Done("t1", "get") =>
           IF base.cache # Nothing
              /\ Expired(tloc["t1"].current_time, base.cache_timestamp, cache_duration)
           THEN cache = Nothing /\ cache_timestamp = 0
           ELSE CacheUntouched

\* is_valid() has answered false for an entry whose age has just reached the
\* duration
C27_EntryJustExpired ==
    /\ Done("t1", "is_valid")
    /\ tloc["t1"].ret = "False"
    /\ base.cache # Nothing
    /\ cache_duration > 0
    /\ tloc["t1"].current_time - base.cache_timestamp = cache_duration

\* The day has been analysed
Analysed == daily_analyses # <<>>

analysis == daily_analyses[1]

\* How unfavourable a status is
Severity(status) ==
    CASE status = "flight possible"          -> 0
      [] status = "caution, chance of delay" -> 1
      [] status = "flight NOT recommended"   -> 2

\* Every score _calculate_risk_score can give
Scores == 0..(3 + 3 + 2 + 2 + 3)

\* C30: the risk score of a day is the maximum of the scores of the two
\* locations; the status is "flight possible" exactly for score <= 3,
\* "caution, chance of delay" exactly for 4 <= score <= 6 and "flight NOT
\* recommended" exactly for score >= 7; and the status never becomes more
\* favourable when either location's score increases
C30_StatusFromMaxScore ==
    Analysed =>
        LET v == _calculate_risk_score(forecast.vankor)
            i == _calculate_risk_score(forecast.igarka)
            score == analysis.risk_score
        IN  /\ score >= v /\ score >= i /\ score \in {v, i}
            /\ analysis.status = "flight possible" <=> score <= 3
            /\ analysis.status = "caution, chance of delay" <=> score \in 4..6
            /\ analysis.status = "flight NOT recommended" <=> score >= 7
            /\ \A higher \in Scores :
                   /\ higher >= v =>
                          Severity(_get_risk_status(Max(higher, i)))
                              >= Severity(analysis.status)
                   /\ higher >= i =>
                          Severity(_get_risk_status(Max(v, higher)))
                              >= Severity(analysis.status)

\* Vankor scores 6 and Igarka 7: the day is analysed with Igarka's score
C30_WorseLocationDecides ==
    /\ Analysed
    /\ _calculate_risk_score(forecast.vankor) = 6
    /\ _calculate_risk_score(forecast.igarka) = 7
    /\ analysis.risk_score = 7
    /\ analysis.status = "flight NOT recommended"

\* get_weather has returned to caller t
Fetched(t) == Done(t, "get_weather")

\* The call of t found no fresh entry and had no API key, or its request
\* was answered with a status other than 200 or raised, or the body of the
\* response could not be used
FetchFailed(t) ==
    \/ tloc[t].cached_data = Nothing /\ tloc[t].key = Nothing
    \/ requests[t] \in {"401", "ClientError", "Exception"}
    \/ requests[t] = "200" /\ tloc[t].stored = Nothing

\* The call of t wrote to the cache only the data built from a 200
\* response, and returned that data
StoredWhatItReturned(t) ==
    tloc[t].stored # Nothing => requests[t] = "200" /\ tloc[t].ret = tloc[t].stored

\* C25 as stated: get_weather returns None and leaves the cache content
\* unchanged when no API key is available, when the API answers with a
\* status other than 200, or when the request raises a network or any other
\* error; it writes to the cache only the data built from a 200 response,
\* and that data is the value it returns
C25_FailureLeavesCacheUnchanged ==
    \A t \in CacheThreads :
        Fetched(t) =>
            /\ FetchFailed(t) =>
                   /\ tloc[t].ret = Nothing
                   /\ ~tloc[t].erased
                   /\ tloc[t].stored = Nothing
            /\ StoredWhatItReturned(t)

\* C25 as amended: a get_weather call that finds no fresh entry in the
\* cache returns None when no API key is available, when the API answers
\* with a status other than 200, or when the request or the handling of the
\* response raises; such a call stores nothing in the cache and changes it
\* only by erasing the expired entry it found, if there was one; a call
\* writes to the cache only the data built from a 200 response, and that
\* data is the value it returns
C25_FailureStoresNothing ==
    \A t \in CacheThreads :
        Fetched(t) =>
            /\ FetchFailed(t) =>
                   /\ tloc[t].ret = Nothing
                   /\ tloc[t].stored = Nothing
                   /\ tloc[t].erased =>
                          /\ tloc[t].found.cache # Nothing
                          /\ Expired(tloc[t].started, tloc[t].found.cache_timestamp,
                                     cache_duration)
            /\ StoredWhatItReturned(t)

\* The API has answered 401 to a call that found an expired entry in the
\* cache: the call has returned None and the entry is gone
C25_ExpiredEntryErasedThenRefused ==
    /\ Fetched("t1")
    /\ requests["t1"] = "401"
    /\ tloc["t1"].ret = Nothing
    /\ tloc["t1"].erased
    /\ tloc["t1"].found.cache # Nothing
    /\ tpc["t2"] = "idle"
    /\ cache = Nothing

\* The entries stored by successful calls that had completed when the call
\* of t began, less than cache_duration seconds before it
StillCached(t) ==
    {d \in tloc[t].seen : tloc[t].started - d.at < cache_duration}

\* C26: once a get_weather call has completed successfully, every call on
\* the same cache that starts less than cache_duration seconds later
\* returns that same cached data and issues no HTTP request; a call that
\* finds the cache empty or expired (and has an API key) issues a request
C26_CachedForDuration ==
    \A t \in CacheThreads :
        Fetched(t) =>
            /\ \A d \in StillCached(t) :
                   /\ tloc[t].ret = d.value
                   /\ requests[t] = "none"
            /\ tloc[t].cached_data = Nothing /\ tloc[t].key # Nothing =>
                   requests[t] # "none"

\* Two calls have both missed the cache and sent a request; one has stored
\* its response and returned, the other's response is still to come
C26_SecondResponseOutstanding ==
    /\ Fetched("t1")
    /\ tloc["t1"].stored # Nothing
    /\ cache = tloc["t1"].stored
    /\ tpc["t2"] = "get_weather:138"
    /\ tloc["t2"].started <= tloc["t1"].started
    /\ now > cache_timestamp
    /\ cache_duration > now - cache_timestamp

\* get_or_create has returned a user to client c
GotUser(c) ==
    /\ dpc[c] = "done"
    /\ dloc[c].op = "get_or_create"
    /\ dloc[c].raised = Nothing

\* The row of users with the telegram_id client c passed
StoredUser(c) == FirstUser(users, dloc[c].args.telegram_id)

\* C21: after any sequence of get_or_create calls, including calls for the
\* same telegram_id from two sessions whose query and insert steps
\* interleave, users holds at most one row per telegram_id; a call for a
\* telegram_id that was there already returns the user with the id of its
\* row and creates no row
C21_OneRowPerTelegramId ==
    /\ \A i, j \in 1..Len(users) :
           users[i].telegram_id = users[j].telegram_id => i = j
    /\ \A i \in 1..Len(users) : users[i].id = i
    /\ \A c \in DbClients :
           GotUser(c) /\ dloc[c].existed =>
               /\ dloc[c].ret.id = StoredUser(c).id
               /\ dloc[c].ret.telegram_id = dloc[c].args.telegram_id
               /\ ~dloc[c].created

\* Both sessions looked for the same telegram_id before either had
\* inserted it; the first insert went through and the second was refused
C21_SecondInsertRefused ==
    /\ GotUser("c1")
    /\ dloc["c1"].created
    /\ dpc["c2"] = "done"
    /\ dloc["c2"].raised = "IntegrityError"
    /\ dloc["c2"].args.telegram_id = dloc["c1"].args.telegram_id
    /\ ~dloc["c2"].existed
    /\ Len(users) = 1

\* The three fields get_or_create compares
ProfileOf(r) ==
    [username |-> r.username, first_name |-> r.first_name,
     last_name |-> r.last_name]

\* C22: get_or_create on an existing telegram_id leaves username,
\* first_name and last_name of the stored user equal to the values passed
\* (an omitted argument overwrites the stored value with None), id and
\* telegram_id unchanged, and commits only when at least one of the three
\* fields changed
C22_ProfileSetToArguments ==
    \A c \in DbClients :
        GotUser(c) /\ dloc[c].loaded # NoUser =>
            /\ ProfileOf(StoredUser(c)) = ProfileOf(dloc[c].args)
            /\ StoredUser(c).id = dloc[c].loaded.id
            /\ StoredUser(c).telegram_id = dloc[c].loaded.telegram_id
            /\ dloc[c].ret = StoredUser(c)
            /\ ~dloc[c].created
            /\ dloc[c].commits = 1 <=>
                   ProfileOf(dloc[c].loaded) # ProfileOf(dloc[c].args)
            /\ dloc[c].commits \in {0, 1}

\* A user stored with a full profile has been fetched again with the three
\* names omitted: the stored names are None now, and a commit was made
C22_OmittedArgumentsOverwrite ==
    /\ GotUser("c1")
    /\ dloc["c1"].loaded.first_name = "Test"
    /\ dloc["c1"].loaded.username = "testuser"
    /\ ProfileOf(dloc["c1"].args) =
           [username |-> Nothing, first_name |-> Nothing, last_name |-> Nothing]
    /\ ProfileOf(StoredUser("c1")) = ProfileOf(dloc["c1"].args)
    /\ dloc["c1"].commits = 1

\* C29: in every state where no init_db call has completed successfully,
\* also after one that failed part-way, no session has been obtained from
\* get_session or db_session
C29_NoSessionUnlessInitialised == ~init_ok => sessions[Caller] = NoSession

\* C29: init_db failed after line 336 on a file whose salary_records table
\* still has the old structure, and get_session then returned a session
C29_SessionAfterFailedMigration ==
    /\ ~init_ok
    /\ schema["salary_records"] = LegacySalaryColumns
    /\ dpc[Caller] = "done"
    /\ dloc[Caller].op = "get_session"
    /\ dloc[Caller].ret = "session"

\* The init_db call under way, or just finished, came after one that succeeded
RepeatedInit == dloc[Caller].op = "init_db" /\ dloc[Caller].repeat

\* C23: an init_db call on a database an earlier init_db call initialised
\* creates and recreates no table and leaves every row where it was: the
\* CRUD reads return what they returned before the call
C23_RepeatedInitKeepsData ==
    RepeatedInit =>
        /\ dloc[Caller].created = {}
        /\ ~dloc[Caller].migrated
        /\ schema = dloc[Caller].before.schema
        /\ Stored = dloc[Caller].before.rows
        /\ \A id \in TelegramIds :
              FirstUser(users, id) = FirstUser(dloc[Caller].before.rows.users, id)

\* C23: a second init_db call has returned on a file that holds users and
\* salary records
C23_SecondInitWithRows ==
    /\ RepeatedInit
    /\ dpc[Caller] = "done"
    /\ dloc[Caller].raised = Nothing
    /\ users # <<>>
    /\ salary_records # <<>>

\* A with-block of db_session has been left and db_session has returned
\* or raised
BlockLeft ==
    /\ dpc[Caller] = "done"
    /\ dloc[Caller].op = "db_session"
    /\ dloc[Caller].block # "none"

GotRecords == dpc[Caller] = "done" /\ dloc[Caller].op = "get_user_records"

\* C24: get_user_records returns only records of the user asked for, at
\* most limit of them, the more recently created before the older: of two
\* records created for the user, the one created second comes first
C24_NewestRecordFirst ==
    GotRecords =>
        LET records == dloc[Caller].ret
        IN  /\ Len(records) <= dloc[Caller].limit
            /\ \A i \in 1..Len(records) :
                  records[i].telegram_id = dloc[Caller].telegram_id
            /\ \A i, j \in 1..Len(records) :
                  i < j => records[i].id > records[j].id

\* C24: two records were created for one user at the same reading of the
\* clock, and get_user_records returned the one created first at element 0
C24_TieReturnsOlderFirst ==
    /\ GotRecords
    /\ Len(dloc[Caller].ret) = 2
    /\ dloc[Caller].ret[1].created_at = dloc[Caller].ret[2].created_at
    /\ dloc[Caller].ret[1].id < dloc[Caller].ret[2].id

\* The number of true conditions among those given
Fired(rules) == Cardinality({i \in 1..Len(rules) : rules[i]})

WithMonthsInCompany(m) ==
    calculate_annual_bonus([args EXCEPT !.months_in_company = D(m, 0)])

\* The reward of the claim's closed formula, computed as the code computes
\* a product: left to right, target_annual_bonus_rate / 100 first
RewardWithoutMonths(v) ==
    DecMul(DecMul(DecMul(v.total_base,
                         DecDiv(v.target_annual_bonus_rate, Hundred)),
                  v.kpi_coefficient),
           v.correction_coefficient)

\* The locals of the call of the current state after the loop over the
\* months: total_base is base[1] + ... + base[12]
LocalsAfterMonths == annual_months(annual_locals(annual_defaults(args)), 1)

C38_BonusIndependentOfMonths ==
    AnnualReturned =>
        \A m \in 1..12 :
            LET other == WithMonthsInCompany(m)
            IN  /\ other.kind = "return"
                /\ DecCmp(other.value.annual_reward_without_allowances,
                          RewardWithoutMonths(LocalsAfterMonths)) = 0
                /\ DecCmp(other.value.total_accrued, outcome.value.total_accrued) = 0
                /\ DecCmp(other.value.tax, outcome.value.tax) = 0
                /\ DecCmp(other.value.net, outcome.value.net) = 0

\* The scenario of twenty days a month has returned with months_in_company
\* 12 and the same call with months_in_company 2 returns another net
C38_TwoMonthsGiveAnotherNet ==
    /\ AnnualReturned
    /\ args = AnnualScenario
    /\ WithMonthsInCompany(2).kind = "return"
    /\ DecCmp(WithMonthsInCompany(2).value.net, outcome.value.net) # 0

(***************************************************************************)
(* C32: on a network error error_handler tries to send the notice at most  *)
(* 3 times, stops at the first attempt that succeeds, sleeps after the     *)
(* first and the second failed attempt and not after the third, and every  *)
(* call returns, also when all three attempts fail.                        *)
(***************************************************************************)
\* The call under way, or just over, handles a network error
NetworkErrorCall == eloc.op = "error_handler" /\ eloc.is_network_error

\* The attempts made so far that failed
FailedReplies == {i \in 1..Len(eloc.replies) : eloc.replies[i] # "sent"}

C32_AttemptsAndSleeps ==
    NetworkErrorCall =>
        /\ Len(eloc.replies) <= 3
        /\ \A i \in 1..Len(eloc.replies) : i < Len(eloc.replies) => i \in FailedReplies
        /\ \A i \in 1..Len(eloc.sleeps) :
              /\ eloc.sleeps[i] = i - 1
              /\ i \in {1, 2}
              /\ i \in FailedReplies
        /\ epc \in {"return", "returned"} =>
              \A i \in FailedReplies \cap {1, 2} : i <= Len(eloc.sleeps)

C32_NetworkErrorHandled ==
    /\ []C32_AttemptsAndSleeps
    /\ (epc \notin {"idle", "returned"}) ~> (epc = "returned")

\* A call for a network error has returned after three failed attempts and
\* two sleeps
C32_ThreeFailuresThenReturn ==
    /\ NetworkErrorCall
    /\ epc = "returned"
    /\ Cardinality(FailedReplies) = 3
    /\ eloc.sleeps = <<0, 1>>

(***************************************************************************)
(* The dialogues.                                                          *)
(***************************************************************************)
\* The keys confirm_annual_bonus looks up with user_data[key]
LookedUp == {"annual_hourly_rate", "annual_months"}

\* user_data holds the days of all 12 months
HoldsMonths(ud) ==
    /\ "annual_monthly_days" \in DOMAIN ud
    /\ DOMAIN ud["annual_monthly_days"] = 1..12

\* C36: the salary dialogue does not remove what was entered in the annual
\* bonus dialogue: as long as every message could be sent, in every state of
\* the annual bonus dialogue after ANNUAL_HOURLY_RATE user_data holds
\* annual_hourly_rate, and in ANNUAL_CONFIRM, where confirm_annual_bonus
\* runs, it holds annual_hourly_rate, annual_months and the days of the 12
\* months
C36_AnnualDataKept ==
    ~outage =>
        /\ annual_bonus_conv_handler \notin {"END", "ANNUAL_HOURLY_RATE"} =>
                "annual_hourly_rate" \in DOMAIN user_data
        /\ annual_bonus_conv_handler = "ANNUAL_CONFIRM" =>
                LookedUp \subseteq DOMAIN user_data /\ HoldsMonths(user_data)

\* Every message was sent, the salary dialogue is over and the annual bonus
\* dialogue waits for the months with nothing in user_data
C36_SalaryEndRemovedAnnualData ==
    /\ ~outage
    /\ salary_conv_handler = "END"
    /\ annual_bonus_conv_handler = "ANNUAL_MONTHS"
    /\ user_data = <<>>

\* Every message was sent and confirm_annual_bonus can run without the
\* values it looks up
C36_ConfirmWithoutData ==
    /\ ~outage
    /\ annual_bonus_conv_handler = "ANNUAL_CONFIRM"
    /\ Dispatch(CallbackQuery("confirm")) = "confirm_annual_bonus"
    /\ user_data = <<>>

\* The handler of state takes the text: it converts to a number that the
\* handler's test lets through
Accepts(state, text) ==
    /\ ~InvalidOperation(value_of(state, text))
    /\ ~out_of_range(state, value_of(state, text))

\* What the handler of the salary state the user is in does with text when
\* its reply is sent
SalaryTextHandled(text) ==
    TextHandler(SalaryStates, salary_conv_handler, text, TRUE, user_data)

\* C33: in the salary dialogue, as long as every message can be sent, a text
\* received in state S that converts to a number in the range of S is stored
\* under the key of S and the dialogue moves to the state after S in the
\* order HOURLY_RATE .. CONFIRM; any other text leaves user_data and the
\* state as they are
C33_TextStoredOrTurnedAway ==
    (~outage /\ salary_conv_handler \in Range(SalaryStates) \ {"CONFIRM"}) =>
        \A text \in Asked(salary_conv_handler) :
            IF Accepts(salary_conv_handler, text)
            THEN /\ SalaryTextHandled(text).state =
                        NextState(SalaryStates, salary_conv_handler)
                 /\ SalaryTextHandled(text).user_data =
                        SetItem(user_data,
                                SalaryKeys[StateIndex(SalaryStates, salary_conv_handler)],
                                value_of(salary_conv_handler, text))
            ELSE /\ SalaryTextHandled(text).state = salary_conv_handler
                 /\ SalaryTextHandled(text).user_data = user_data

\* Every message was sent and the salary dialogue waits for the northern
\* allowance without the hourly rate in user_data: the number the user
\* sends is stored, the summary raises KeyError and the state stays
C33_NorthernAllowanceWithoutRate ==
    /\ ~outage
    /\ salary_conv_handler = "NORTHERN_ALLOWANCE"
    /\ "hourly_rate" \notin DOMAIN user_data
    /\ SalaryTextHandled(T_12).exc = "KeyError"
    /\ SalaryTextHandled(T_12).state = "NORTHERN_ALLOWANCE"
    /\ "northern_allowance_rate" \in DOMAIN SalaryTextHandled(T_12).user_data

\* The salary dialogue enters CONFIRM only with all nine values in
\* user_data
C33_ConfirmAfterNineValues ==
    [][(salary_conv_handler # "CONFIRM" /\ salary_conv_handler' = "CONFIRM") =>
            Range(SalaryKeys) \subseteq DOMAIN user_data']_vars

\* The salary dialogue is in CONFIRM with the nine values entered
C33_NineValuesEntered ==
    /\ ~outage
    /\ salary_conv_handler = "CONFIRM"
    /\ Range(SalaryKeys) = DOMAIN user_data

\* C37: one run of the salary dialogue, from its entry point to END, saves
\* at most one SalaryRecord, also when the report cannot be sent after the
\* record was saved and the user presses 'confirm' again
C37_OneRecordPerRun == saved_in_run <= 1

\* The salary dialogue is still in CONFIRM with its values after a record
\* was saved: the report and the message of `except Exception` could not
\* be sent, and the button 'confirm' goes to confirm_salary again
C37_SavedAndStillInConfirm ==
    /\ saved_in_run = 1
    /\ salary_conv_handler = "CONFIRM"
    /\ Range(SalaryKeys) \subseteq DOMAIN user_data
    /\ Dispatch(CallbackQuery("confirm")) = "confirm_salary"

\* One run of the salary dialogue has saved two records
C37_TwoRecordsInOneRun ==
    /\ saved_in_run = 2
    /\ Len(salary_records) = 2

\* confirm_salary saves nothing when calculate_salary raises or a value it
\* looks up is missing
C37_NoRecordWithoutResult ==
    [][(salary_conv_handler = "CONFIRM"
        /\ Received(Calculated("salary", user_data)) # "return") =>
            salary_records' = salary_records]_vars

\* What confirm_salary and confirm_annual_bonus can do in the states in
\* which the button 'confirm' reaches them
ConfirmOutcomes ==
    (IF salary_conv_handler = "CONFIRM"
     THEN {confirm("salary", salary_conv_handler, sent, saves, user_data,
                   Received(Calculated("salary", user_data))) :
                sent \in Deliveries(3), saves \in BOOLEAN}
     ELSE {})
    \cup (IF annual_bonus_conv_handler = "ANNUAL_CONFIRM"
          THEN {confirm("annual", annual_bonus_conv_handler, sent, TRUE, user_data,
                        Received(Calculated("annual", user_data))) :
                    sent \in Deliveries(3)}
          ELSE {})

\* What cancel_salary and cancel_annual_bonus can do in the states of their
\* dialogues, called for the button or for a command
CancelOutcomes ==
    {cancel(query, state, sent, user_data) :
        query \in BOOLEAN,
        state \in {salary_conv_handler, annual_bonus_conv_handler} \ {"END"},
        sent \in Deliveries(2)}

\* The keys a dialogue stores its values under
SalaryData == Range(SalaryKeys)

AnnualData == {AnnualKey(AnnualStates[i]) : i \in 1..(Len(AnnualStates) - 1)}

\* C35: whenever confirm_salary, confirm_annual_bonus, cancel_salary or
\* cancel_annual_bonus returns, it returns ConversationHandler.END and
\* user_data is empty; /cancel and /start go to a cancel handler in every
\* state of a dialogue; and a dialogue that is not under way has none of its
\* values in user_data, so none survives into the next run
C35_EndLeavesNothing ==
    /\ \A handled \in ConfirmOutcomes \cup CancelOutcomes :
            handled.exc = "" => handled.state = "END" /\ handled.user_data = <<>>
    /\ (salary_conv_handler # "END" \/ annual_bonus_conv_handler # "END") =>
            \A name \in {"cancel", "start"} :
                Dispatch(Command(name)) \in {"cancel_salary", "cancel_annual_bonus"}
    /\ salary_conv_handler # "END" =>
            \A name \in {"cancel", "start"} : salary_conv_check(Command(name)) = "cancel_salary"
    /\ annual_bonus_conv_handler # "END" =>
            \A name \in {"cancel", "start"} :
                annual_conv_check(Command(name)) = "cancel_annual_bonus"
    /\ salary_conv_handler = "END" => DOMAIN user_data \cap SalaryData = {}
    /\ annual_bonus_conv_handler = "END" => DOMAIN user_data \cap AnnualData = {}

\* A second run of the salary dialogue has begun after confirm_salary saved
\* the record of the first and returned: nothing is in user_data
C35_NextRunStartsEmpty ==
    /\ salary_conv_handler = "HOURLY_RATE"
    /\ annual_bonus_conv_handler = "END"
    /\ Len(salary_records) = 1
    /\ saved_in_run = 0
    /\ user_data = <<>>

\* value lies in [low, high]
Between(value, low, high) ==
    value.kind = "num" /\ ~DecLt(value, D(low, 0)) /\ ~DecGt(value, D(high, 0))

\* The constraint validate_salary_inputs and validate_annual_bonus_inputs
\* check for the value stored under key; None stands for a skipped value
Constraint(key, value) ==
    CASE key \in {"hourly_rate", "annual_hourly_rate"} ->
            value.kind = "num" /\ DecGt(value, Zero)
      [] key = "days_worked" -> Between(value, 0, 365)
      [] key \in {"night_hours", "idle_days", "travel_days", "holiday_days",
                  "additional_payments"} ->
            value.kind = "num" /\ ~DecLt(value, Zero)
      [] key \in {"regional_allowance_rate", "northern_allowance_rate",
                  "annual_target_bonus_rate", "annual_regional", "annual_northern"} ->
            Between(value, 0, 100)
      [] key = "annual_months" -> Between(value, 1, 12)
      [] key = "annual_bonus_rate" -> value = None \/ Between(value, 0, 100)
      [] key \in {"annual_kpi", "annual_correction_coefficient"} ->
            value = None \/ (value.kind = "num" /\ ~DecLt(value, Zero))
      [] key = "annual_monthly_days" ->
            /\ DOMAIN value \subseteq 1..12
            /\ \A m \in DOMAIN value : Between(value[m], 0, 31)

\* The states of the two dialogues that take a text
TextStates == (Range(SalaryStates) \ {"CONFIRM"}) \cup (Range(AnnualStates) \ {"ANNUAL_CONFIRM"})

\* What the handler of state stores for a text it takes, into an empty
\* user_data: the key and the value
StoredFor(state, text) ==
    LET ud == Stores(state,
                     IF takes_skip(state) /\ lower(strip(text)) \in SkipWords THEN None
                     ELSE value_of(state, text),
                     [annual_monthly_days |-> <<>>])
    IN  [key \in IF MonthOf(state) > 0 THEN {"annual_monthly_days"} ELSE DOMAIN ud \ {"annual_monthly_days"} |->
            ud[key]]

\* Of every text, whatever a handler lets through satisfies the constraint
\* of the calculator, and the handler of the target rate lets no skipped
\* value through
HandlersAgreeWithValidators ==
    \A state \in TextStates : \A text \in Texts :
        ((takes_skip(state) /\ lower(strip(text)) \in SkipWords) \/ Accepts(state, text)) =>
            \A key \in DOMAIN StoredFor(state, text) :
                Constraint(key, StoredFor(state, text)[key])

\* C34: every value the dialogues have stored in user_data satisfies the
\* constraint the calculators check for it, the target rate is among the
\* values confirm_annual_bonus passes on, and neither confirm_salary nor
\* confirm_annual_bonus gets the *CalculationError of its calculator
C34_StoredValuesValid ==
    /\ HandlersAgreeWithValidators
    /\ \A key \in DOMAIN user_data : Constraint(key, user_data[key])
    /\ (annual_bonus_conv_handler = "ANNUAL_CONFIRM" /\ LookedUp \subseteq DOMAIN user_data) =>
            "annual_target_bonus_rate" \in DOMAIN user_data
    /\ salary_conv_handler = "CONFIRM" =>
            Received(Calculated("salary", user_data)) # "SalaryCalculationError"
    /\ annual_bonus_conv_handler = "ANNUAL_CONFIRM" =>
            Received(Calculated("annual", user_data)) # "AnnualBonusCalculationError"

\* Both dialogues have been taken to their summaries with every message
\* sent, and both calculators return for the values entered
C34_BothCalculatorsReturn ==
    /\ ~outage
    /\ salary_conv_handler = "CONFIRM"
    /\ annual_bonus_conv_handler = "ANNUAL_CONFIRM"
    /\ DOMAIN user_data = SalaryData \cup AnnualData
    /\ Received(Calculated("salary", user_data)) = "return"
    /\ Received(Calculated("annual", user_data)) = "return"

====
